---------------------------- MODULE Spec2Model ----------------------------
(***************************************************************************)
(* Trial sequencer of the chainsaw experiment library:                     *)
(* Experiment.show_all_trials (src/exp_utils.py) with the break policy     *)
(* (_check_break), the accuracy stop (_check_correctness), the staircase   *)
(* hook (handle_staircase) and the incremental flushes (save_beh_data,     *)
(* save_trigger_log, register_trigger of src/io_utils.py).                 *)
(*                                                                         *)
(* Positions are 0-based as in the code: a table of n rows is a function   *)
(* on 0..n-1.  Python's None is the empty tuple, a value v that may be     *)
(* None is the 1-tuple <<v>>.  A float threshold is the pair <<num, den>>. *)
(* The row index of the tables is the default RangeIndex, so a row's key   *)
(* (current_loc) is its position.                                          *)
(***************************************************************************)
EXTENDS Integers, Sequences, FiniteSets

VARIABLES
    trials,               \* exp.trials[tri_col]: position -> trial identifier
    settings,             \* exp.settings / exp.triggers: the keys the loop reads
    beh,                  \* exp.beh: position -> [trial, ifcorrect]
    beh_writes,           \* history: times handle_responses wrote each row
    trigger_log,          \* exp.trigger_log: three parallel lists
    current_idx,          \* exp.current_idx
    current_trial,        \* exp.current_trial
    last_beh_save,        \* exp.last_beh_save
    last_log_save,        \* exp.last_log_save
    beh_file,             \* lines appended to <subject>.csv
    trig_file,            \* lines appended to <subject>_trig.log
    staircase,            \* the staircase object: values it can still give
    pc,                   \* where show_all_trials stands
    args,                 \* arguments of the running (or last) call
    t_idx,                \* local t_idx
    stop_before_idx,      \* local stop_before_idx
    n_above,              \* local n_above
    elapsed_trials,       \* local elapsed_trials
    trials_without_break, \* local trials_without_break
    show_break,           \* local show_break
    disp_corr,            \* local disp_corr
    ended,                \* how the last call ended
    events,               \* history: trials and breaks shown by the call
    acc_hist,             \* history: (n_resp, n_corr) of each evaluation
    start_row,            \* history: position the call started from
    cursor0,              \* history: current_idx when the call was made
    shown_before,         \* history: positions presented by earlier calls
    calls,                \* history: calls of show_all_trials made
    flushes,              \* history: flushes called from outside the loop
    to_call,              \* exp.window: calls scheduled by callOnFlip
    trigger_device,       \* exp.trigger_device / exp.send_trigger
    hw_out,               \* codes written to the trigger device
    clock_time,           \* reading of the response clock (half frames)
    el,                   \* arguments of the running (or last) show_element
    el_pc,                \* where show_element stands
    needs_drawing,        \* local needs_drawing
    el_clock,             \* local clock
    n_frames,             \* local n_frames
    trigger_off,          \* local trigger_off_time (after line 632)
    frame_idx,            \* local frame_idx
    total_time,           \* local total_time (half frames)
    el_result,            \* what the last show_element returned or raised
    since_onset,          \* history: time since the first flip of the call
    flips,                \* history: window flips done by the call
    draws,                \* history: draw calls made by the call
    polls,                \* history: polls of the response device by the call
    emitted,              \* history: every emission, with its call and flip
    shows,                \* history: calls of show_element made
    scheduled,            \* history: codes asked to be scheduled, in order
    hw_errors,            \* history: hardware writes that raised
    flip_raised,          \* the last window flip ended by an exception
    warnings,             \* warnings issued
    response_device,      \* kind of exp.response_device
    kb,                   \* psychopy.event: key presses not yet read
    key_buffer,           \* Keyboard object: key presses not yet read
    box_line,             \* response box: entries not yet polled
    response_queue,       \* response box: device.response_queue
    pressed,              \* CedrusResponseBox.pressed: keys awaiting release
    arrived,              \* entries the response box has sent (their clock)
    wait_pc,              \* the blocking wait the program stands in
    wait_args,            \* keyList and send_trigger of that wait
    keys_out,             \* what the last wait or key read gave back
    quit_seen,            \* history: the quit key was pressed in this wait
    returned,             \* history: presses given back by each getKeys call
    quit_flip,            \* history: flips done when the quit key was pressed
    stair_param,          \* column staircase_param of trials and of beh
    stair_calls,          \* history: calls made on the staircase object
    beh_rt,               \* exp.beh column RT: position -> number or NaN
    finished,             \* history: a call ran to the end of the table
    time_in_seconds,      \* settings['times']: name -> seconds (milliseconds)
    measured_frame_time,  \* frame_time given to set_window (milliseconds)
    time_in_frames,       \* exp.times after set_window, None before
    pages,                \* Instructions.pages: kind of each page
    nextpage,             \* Instructions.nextpage
    ins_stop,             \* local stop of Instructions.present
    ins_pc,               \* where Instructions.present stands
    turned,               \* history: <<page, kind, action, last page>> per page shown
    current_loc,          \* exp.current_loc, None before the first trial
    index,                \* exp.trials.index: position -> row label
    appended              \* history: positions of the rows added during a call

cursor == <<current_idx, current_trial, last_beh_save, last_log_save>>
tables == <<trials, settings, beh, beh_writes, trigger_log>>
files == <<beh_file, trig_file>>
locals == <<args, t_idx, stop_before_idx, n_above, elapsed_trials,
            trials_without_break, show_break, disp_corr>>
history == <<ended, events, acc_hist, start_row, cursor0, shown_before,
             calls, flushes>>
window == <<to_call, trigger_device, hw_out, clock_time, flip_raised, warnings>>
el_locals == <<el, el_pc, needs_drawing, el_clock, n_frames, trigger_off,
               frame_idx, total_time, el_result>>
el_history == <<since_onset, flips, draws, polls, emitted, shows, scheduled,
                hw_errors>>
presentation == <<window, el_locals, el_history>>
keyboard == <<kb, key_buffer, quit_seen, quit_flip>>
box == <<box_line, response_queue, pressed, arrived, returned>>
waits == <<response_device, wait_pc, wait_args, keys_out>>
inputs == <<keyboard, box, waits>>
stairs == <<stair_param, stair_calls, beh_rt, finished>>
timing == <<time_in_seconds, measured_frame_time, time_in_frames>>
instr == <<pages, nextpage, ins_stop, ins_pc, turned>>
rowkeys == <<current_loc, index, appended>>
extras == <<timing, instr, rowkeys>>
vars == <<cursor, tables, files, staircase, pc, locals, history, presentation,
          inputs, stairs, extras>>

---------------------------------------------------------------------------
\* Bounds of the model.
MaxTrials == 3
MaxCalls == 2
MaxFlushes == 2
MaxTrigs == 1
MaxStair == 2

None == <<>>
Some(v) == <<v>>
Opt(S) == {None} \cup {Some(v) : v \in S}

Ids == 1..MaxTrials
Rows(tri) == Cardinality(DOMAIN tri)

\* Trial tables: n rows, unique identifiers, in any order, not contiguous.
TrialTables ==
    UNION {{f \in [0..(n - 1) -> Ids] :
               \A i, j \in 0..(n - 1) : f[i] = f[j] => i = j} : n \in 0..MaxTrials}

\* Tables whose identifiers increase with the position.
SortedTables ==
    {f \in TrialTables : \A i, j \in DOMAIN f : i < j => f[i] < f[j]}

\* Experiment.reset_beh: an empty trigger log ...
empty_trigger_log == [time |-> <<>>, trigger |-> <<>>, trial |-> <<>>]

\* ... and beh a copy of trials, no outcome written yet.
reset_beh_table(tri) ==
    [p \in DOMAIN tri |-> [trial |-> tri[p], ifcorrect |-> None]]

---------------------------------------------------------------------------
\* np.where(tri_nums == ident)[0]: the positions holding ident.
np_where(tri, ident) == {p \in DOMAIN tri : tri[p] = ident}

Min(S) == CHOOSE m \in S : \A x \in S : m <= x

\* A variant of start_trial_idx that resumes a start_from call at the first row.
start_trial_idx_first_row(tri, cur_idx, start_from) ==
    IF start_from = None THEN Some(cur_idx + 1)
    ELSE IF np_where(tri, start_from[1]) = {} THEN None
    ELSE Some(0)

\* Lines 404-408: the position to start from; None stands for the IndexError
\* of [0][0] on an empty match.
start_trial_idx(tri, cur_idx, start_from) ==
    IF start_from = None THEN Some(cur_idx + 1)
    ELSE IF np_where(tri, start_from[1]) = {} THEN None
    ELSE Some(Min(np_where(tri, start_from[1])))

\* Lines 410-412: the stop boundary of an explicit stop_after.
stop_before(tri, stop_after) ==
    IF np_where(tri, stop_after[1]) = {} THEN None
    ELSE Some(Min(np_where(tri, stop_after[1])) + 1)

\* Lines 387-390: defaults of the accuracy-stop arguments.
\* A keyword argument that defaults to False (lines 298-300).
keyword(a, name) == IF name \in DOMAIN a THEN a[name] ELSE FALSE

with_defaults(a) ==
    IF a.stop_at_corr = None THEN a
    ELSE [a EXCEPT !.min_trials = IF @ = None THEN Some(0) ELSE @,
                   !.n_consecutive = IF @ = None THEN Some(1) ELSE @]

\* handle_responses, lines 352-358: the outcome goes to row current_idx.
handle_responses(b, idx, ifcorrect) ==
    [b EXCEPT ![idx].ifcorrect = Some(ifcorrect)]

\* register_trigger: one entry on each of the three lists.  The time stamp
\* (exp_clock.getTime()) is a reading no decision depends on.
register_trigger(log, code, trial) ==
    [time |-> Append(log.time, "t"),
     trigger |-> Append(log.trigger, code),
     trial |-> Append(log.trial, trial)]

RECURSIVE register_triggers(_, _, _, _)
register_triggers(log, code, trial, k) ==
    IF k = 0 THEN log
    ELSE register_triggers(register_trigger(log, code, trial), code, trial, k - 1)

\* b.iloc[lo:hi]: the positions of a slice, clipped to the table.
RECURSIVE iloc(_, _, _)
iloc(n, lo, hi) ==
    IF lo >= hi \/ lo >= n THEN <<>>
    ELSE <<lo>> \o iloc(n, lo + 1, hi)

header_line == [kind |-> "header", pos |-> 0 - 1, val |-> None]
beh_line(b, p) == [kind |-> "row", pos |-> p, val |-> b[p].ifcorrect]
log_line(i) == [kind |-> "row", pos |-> i, val |-> None]

\* save_beh_data, lines 439-440: what one call appends to the file.
save_beh_lines(b, last_save, cur_idx) ==
    LET rows == iloc(Cardinality(DOMAIN b), last_save, cur_idx + 1)
    IN  (IF cur_idx = 0 THEN <<header_line>> ELSE <<>>)
        \o [i \in 1..Len(rows) |-> beh_line(b, rows[i])]

\* A variant of save_beh_data that leaves last_beh_save on the row written
\* last.
save_beh_mark_on_row(cur_idx) == cur_idx

\* save_beh_data, line 441.
save_beh_mark(cur_idx) == cur_idx + 1

\* save_trigger_log, lines 427-432: what one call appends to the file.
save_log_lines(log, from_idx) ==
    (IF from_idx = 0 THEN <<header_line>> ELSE <<>>)
    \o [i \in 1..(Len(log.time) - from_idx) |-> log_line(from_idx + i - 1)]

\* save_trigger_log, line 433.
save_log_mark(log) == Len(log.time)

\* The rows that the query of _check_correctness (lines 760-761) selects.
query_rows(b, cur_trial) == {p \in DOMAIN b : b[p].trial <= cur_trial}

\* A variant of _check_correctness that keeps the count of evaluations at or
\* above the threshold when an evaluation falls below it.
_check_correctness_no_reset(b, cur_trial, above, stop_at_corr) ==
    LET qry == query_rows(b, cur_trial)
        n_resp == Cardinality(qry)
        n_corr == Cardinality({p \in qry : b[p].ifcorrect = Some(TRUE)})
    IN  <<IF n_corr * stop_at_corr[2] >= stop_at_corr[1] * n_resp
          THEN above + 1 ELSE above,
          <<n_resp, n_corr>>>>

\* _check_correctness: <<n_above, disp_corr>>; disp_corr = <<n_resp, n_corr>>.
\* correctness >= stop_at_corr is compared on the fractions.
_check_correctness(b, cur_trial, above, stop_at_corr) ==
    LET qry == query_rows(b, cur_trial)
        n_resp == Cardinality(qry)
        n_corr == Cardinality({p \in qry : b[p].ifcorrect = Some(TRUE)})
    IN  <<IF n_corr * stop_at_corr[2] >= stop_at_corr[1] * n_resp
          THEN above + 1 ELSE 0,
          <<n_resp, n_corr>>>>

\* A variant of _check_break that waits for one trial more than the interval.
_check_break_late(sett, without_break, break_every, show) ==
    LET every == IF break_every = None THEN sett.break_every_n_trials
                 ELSE break_every
        counted == every # None /\ ~show
        n == IF counted THEN without_break + 1 ELSE without_break
        shown == IF counted THEN every[1] > 0 /\ n > every[1] ELSE show
    IN  <<IF shown THEN 0 ELSE n, shown>>

\* A variant of _check_break that keeps the counter over a break asked for by
\* the caller (show_break).
_check_break_keep_count(sett, without_break, break_every, show) ==
    LET every == IF break_every = None THEN sett.break_every_n_trials
                 ELSE break_every
        counted == every # None /\ ~show
        n == IF counted THEN without_break + 1 ELSE without_break
        shown == IF counted THEN every[1] > 0 /\ n >= every[1] ELSE show
    IN  <<IF shown /\ counted THEN 0 ELSE n, shown>>

\* _check_break: <<trials_without_break, whether present_break is called>>.
_check_break(sett, without_break, break_every, show) ==
    LET every == IF break_every = None THEN sett.break_every_n_trials
                 ELSE break_every
        counted == every # None /\ ~show
        n == IF counted THEN without_break + 1 ELSE without_break
        shown == IF counted THEN every[1] > 0 /\ n >= every[1] ELSE show
    IN  <<IF shown THEN 0 ELSE n, shown>>

\* The stop boundary read from the table once, after the first trial of the
\* call.
stop_boundary_once(a, tri, before) ==
    IF a.stop_after = None /\ before = 0 THEN Cardinality(DOMAIN tri) ELSE before

\* Lines 469-471: without stop_after the boundary is the number of rows that
\* the table has now.
stop_boundary(a, tri, before) ==
    IF a.stop_after = None THEN Cardinality(DOMAIN tri) ELSE before

\* A variant of skip_break that never skips the break check.
skip_break_never(idx, stop_idx) == FALSE

\* Line 474: the break check is skipped on the row before the boundary.
skip_break(idx, stop_idx) == idx = stop_idx - 1

\* A variant of accuracy_stop that ignores min_trials.
accuracy_stop_no_min(above, a, elapsed) ==
    above >= a.n_consecutive[1]

\* Line 466: the accuracy stop.
accuracy_stop(above, a, elapsed) ==
    above >= a.n_consecutive[1] /\ elapsed >= a.min_trials[1]

---------------------------------------------------------------------------
\* Stimulus presentation: show_element, set_trigger and the window flip.
\* Time is counted in half frames.
MaxFrames == 3
MaxScheduled == 3

\* exp.frame_time, and np.inf as a number no count of the model reaches.
frame_time == 2
np_inf == 1000
\* How long a flip can take: one frame, one and a half, two and a half.
FlipTimes == {2, 3, 5}

\* exp.stim, exp.triggers and exp.times of the experiment: "fix" is a stimulus
\* with a trigger and a time, "cue" a stimulus of indefinite time and no
\* trigger; "ghost" and "" are no stimulus.  A time is the set of its draws.
stim == {"fix", "cue"}
triggers == [n \in {"fix"} |-> 1]
times == [n \in {"fix", "cue"} |-> IF n = "fix" THEN {2} ELSE {np_inf}]
Names == {"fix", "cue", "ghost", ""}

\* A trigger argument: None, an integer code, a name, False.
TrigNone == <<"none", 0, "">>
TrigInt(c) == <<"int", c, "">>
TrigName(n) == <<"str", 0, n>>
TrigFalse == <<"bool", 0, "">>

\* An elem argument: <<is_list, names>>.
ElemStr(n) == <<FALSE, <<n>>>>
ElemList(ns) == <<TRUE, ns>>

\* What show_element gives back: <<kind, key or error, reaction time>>.
Returned(kind, key, rt) == <<kind, key, rt>>
Raised(err) == <<"raise", err, 0>>

\* get_time, lines 107-112: the draws of a name's time; none is a KeyError.
get_time(n) == IF n \in DOMAIN times THEN times[n] ELSE {}

\* A variant of set_trigger that puts the new call ahead of the schedule.
set_trigger_front(q, event, clock, by) ==
    IF event[1] = "int" THEN <<<<event[2], clock, by>>>> \o q
    ELSE IF event[1] = "str" /\ event[3] \in DOMAIN triggers
    THEN <<<<triggers[event[3]], clock, by>>>> \o q
    ELSE q

\* set_trigger: the calls scheduled for the next flip, after the call.  An
\* entry is <<code, clock to reset, show_element call that scheduled it>>.
set_trigger(q, event, clock, by) ==
    IF event[1] = "int" THEN Append(q, <<event[2], clock, by>>)
    ELSE IF event[1] = "str" /\ event[3] \in DOMAIN triggers
    THEN Append(q, <<triggers[event[3]], clock, by>>)
    ELSE q

\* The scheduled calls a flip runs to their end: all of them, or those before
\* the one whose hardware write raises (fail_at, 0 when none raises).
executed(q, fail_at) == IF fail_at = 0 THEN q ELSE SubSeq(q, 1, fail_at - 1)

\* register_trigger for each executed call, in the order of the schedule.
RECURSIVE register_all(_, _, _)
register_all(log, q, trial) ==
    IF q = <<>> THEN log
    ELSE register_all(register_trigger(log, q[1][1], trial), Tail(q), trial)

\* send_trigger_cpod, line 101: the codes written to the device.
activate_lines(device, q) ==
    IF device = "cpod" THEN [i \in DOMAIN q |-> q[i][1]] ELSE <<>>

\* reset_clock within register_trigger: the clock reads 0 after a flip that
\* ran a call carrying it, else the time of the flip has passed on it.
clock_after(clk, q, d) ==
    IF \E i \in DOMAIN q : q[i][2] THEN 0 ELSE clk + d

\* The emissions of a flip: <<code, scheduling call, flipping call, flips the
\* flipping call had done before>>.
emissions(q, show, flip_no) ==
    [i \in DOMAIN q |-> <<q[i][1], q[i][3], show, flip_no>>]

\* A variant of continue_loop without the half frame of tolerance.
continue_loop_full_time(idx, n, total) == idx < n /\ total < n * frame_time

\* Lines 640 and 642: the loop goes on.
requested_time(n) == n * frame_time - frame_time \div 2
continue_loop(idx, n, total) == idx < n /\ total < requested_time(n)

\* A variant of indefinite that lets every time through.
indefinite_never(n, await_response) == FALSE

\* Line 625: an indefinite time that no response can end.
indefinite(n, await_response) == n = np_inf /\ ~await_response

\* Lines 611-615.
send_this_trigger(e) ==
    /\ e.trigger # TrigNone \/ e.elem[2][1] \in DOMAIN triggers
    /\ e.trigger # TrigFalse

\* Lines 629-632: a trigger_off_time at or past the time argument is dropped.
trigger_off_after(e) ==
    IF e.trigger_off_time # None /\ e.trigger_off_time[1] >= e.time[1]
    THEN None ELSE e.trigger_off_time

\* Lines 662-666: what show_element returns on a key; the key comes with its
\* time only when getKeys is given a clock (timeStamped).
key_result(clock, name, rt) ==
    IF clock = "Clock" THEN Returned("pair", name, rt)
    ELSE Returned("key", name, 0)

InitPresentation ==
    /\ to_call = <<>>
    /\ trigger_device = "none"
    /\ hw_out = <<>>
    /\ clock_time = 1
    /\ el = [time |-> None, trigger |-> TrigNone, await_response |-> FALSE,
             elem |-> ElemStr("fix"), trigger_off_time |-> None,
             reset_clock |-> "False"]
    /\ el_pc = "idle"
    /\ needs_drawing = TRUE
    /\ el_clock = "False"
    /\ n_frames = 0
    /\ trigger_off = None
    /\ frame_idx = 0
    /\ total_time = 0
    /\ el_result = Returned("never", "", 0)
    /\ since_onset = 0
    /\ flips = 0
    /\ draws = 0
    /\ polls = 0
    /\ emitted = <<>>
    /\ shows = 0
    /\ scheduled = <<>>
    /\ hw_errors = 0
    /\ flip_raised = FALSE
    /\ warnings = 0

---------------------------------------------------------------------------
\* Input: the keyboard, the response box and the blocking waits.
MaxKeys == 2
MaxMillis == 12
MaxPages == 2
MaxTurns == 4
MaxEntries == 3

\* exp.quitopt (line 810 of exp_utils.py): the quit key is enabled.
quitopt == <<TRUE, "q">>
quit_enabled == quitopt[1]
quit_button == quitopt[2]

\* Key names as psychopy gives them and the characters of each: Python's `in`
\* between two strings is a substring test.
KeyNames == {"f", "q", "equal", "space", "left"}
chars(k) ==
    CASE k = "f" -> <<"f">>
      [] k = "q" -> <<"q">>
      [] k = "equal" -> <<"e", "q", "u", "a", "l">>
      [] k = "space" -> <<"s", "p", "a", "c", "e">>
      [] k = "left" -> <<"l", "e", "f", "t">>
      [] k = "quit" -> <<"q", "u", "i", "t">>
str_in(a, b) ==
    \E i \in 1..(Len(chars(b)) - Len(chars(a)) + 1) :
        SubSeq(chars(b), i, i + Len(chars(a)) - 1) = chars(a)

\* set_responses, lines 253-274: the response keys with the quit key appended,
\* and the part of exp.triggers keyed by the response keys (lines 264-267).
resp_keys == {"f"} \cup (IF quit_enabled THEN {quit_button} ELSE {})
resp_triggers == [k \in {"f"} |-> 2]

\* Instructions.__init__, lines 36-40: the default navigation and a finish key.
navigation ==
    [k \in {"left", "right", "space", "f"} |->
        IF k = "left" THEN "prev" ELSE IF k = "f" THEN "finish" ELSE "next"]

\* show_page, lines 98-106.
allow_keys(allow_finish) ==
    {k \in DOMAIN navigation :
        IF navigation[k] \in {"next", "finish"}
        THEN (allow_finish /\ navigation[k] = "finish")
                 \/ (~allow_finish /\ navigation[k] = "next")
        ELSE TRUE}

\* The kinds of exp.response_device (set_responses, lines 235-250).
Devices == {"None", "Keyboard", "CedrusResponseBox", "box"}
Boxes == {"CedrusResponseBox", "box"}

\* An entry of the response box, <<key, pressed, time>>, and its buttons.
BoxKeys == {"1", "2"}

\* What a wait or a key read gives back: <<kind, keys>>, a key being
\* <<name, time>>.  core.quit() ends the process.
Gave(kind, ks) == <<kind, ks>>
Quit == <<"quit", <<>>>>

\* event.getKeys(keyList=...): the keys of keyList leave the buffer.
event_getKeys(buf, keyList) ==
    <<SelectSeq(buf, LAMBDA k : k \in keyList),
      SelectSeq(buf, LAMBDA k : k \notin keyList)>>

\* check_quit, lines 270-281: <<core.quit() is called, the event buffer>>.
\* key is the name waitKeys returned.
check_quit(dev, key, buf) ==
    IF ~quit_enabled THEN <<FALSE, buf>>
    ELSE IF dev # "None"
    THEN LET got == event_getKeys(buf, {quit_button})
         IN  <<got[1] # <<>>, got[2]>>
    ELSE <<str_in(quit_button, key) \/ str_in("quit", key), buf>>

\* Lines 218-219 without the test of response['pressed'].
response_ok_release(response, keyList) ==
    keyList = None \/ response[1] \in keyList[1]

\* Lines 218-219.
response_ok(response, keyList) ==
    response[2] /\ (keyList = None \/ response[1] \in keyList[1])

\* device.poll_for_response(): one waiting entry moves to response_queue.
poll_for_response(queue, line) ==
    IF line = <<>> THEN <<queue, line>>
    ELSE <<Append(queue, Head(line)), Tail(line)>>

\* waitKeys on a response box, lines 212-219: <<the response that ends the
\* wait (None while it goes on), response_queue, entries not yet polled>>.
RECURSIVE waitKeys(_, _, _)
waitKeys(queue, line, keyList) ==
    IF queue = <<>>
    THEN IF line = <<>> THEN <<None, queue, line>>
         ELSE waitKeys(<<Head(line)>>, Tail(line), keyList)
    ELSE IF response_ok(Head(queue), keyList)
    THEN <<Some(Head(queue)), Tail(queue), line>>
    ELSE waitKeys(Tail(queue), line, keyList)

\* Lines 220-224 and 254-258: a key with its time only when timeStamped.
stamped(response, timeStamped) ==
    <<response[1], IF timeStamped THEN response[3] ELSE 0>>

\* getKeys on a response box, lines 250-259: <<keys, entries not yet polled>>
\* when the queue has run empty.
RECURSIVE getKeys_loop(_, _, _, _, _)
getKeys_loop(keys, queue, line, keyList, timeStamped) ==
    IF queue = <<>> THEN <<keys, line>>
    ELSE LET key_event == Head(queue)
             p == poll_for_response(Tail(queue), line)
         IN  getKeys_loop(IF response_ok(key_event, keyList)
                          THEN Append(keys, stamped(key_event, timeStamped))
                          ELSE keys,
                          p[1], p[2], keyList, timeStamped)

\* getKeys with keys[-1] for keys[0] at line 263.
getKeys_last(queue, line, keyList, timeStamped, only_first) ==
    LET p == poll_for_response(queue, line)
        r == getKeys_loop(<<>>, p[1], p[2], keyList, timeStamped)
        keys == r[1]
    IN  <<IF keys # <<>> /\ only_first THEN Gave("first", <<keys[Len(keys)]>>)
          ELSE Gave("list", keys),
          <<>>, r[2]>>

\* getKeys on a response box, lines 246-264: <<what it returns,
\* response_queue, entries not yet polled>>.
getKeys(queue, line, keyList, timeStamped, only_first) ==
    LET p == poll_for_response(queue, line)
        r == getKeys_loop(<<>>, p[1], p[2], keyList, timeStamped)
        keys == r[1]
    IN  <<IF keys # <<>> /\ only_first THEN Gave("first", <<keys[1]>>)
          ELSE Gave("list", keys),
          <<>>, r[2]>>

\* A dict as a function: d[n] = v, and d without n.
put(d, n, v) == [m \in DOMAIN d \cup {n} |-> IF m = n THEN v ELSE d[m]]
pop(d, n) == [m \in DOMAIN d \ {n} |-> d[m]]

\* get_responses, lines 475-511: the entry at idx of response_queue.  st is
\* <<keys, rbox.pressed, pressed_now, clear_idx>> and a key is
\* <<name, rt, duration>>.  The key a release takes from rbox.pressed is the
\* object a press of this call may have appended to keys: its duration is
\* set in place.
respond(st, idx, response, keyList, clear) ==
    LET keys == st[1]
        name == response[1]
        clear_idx == IF clear THEN st[4] \cup {idx} ELSE st[4]
    IN  IF ~(keyList = None \/ name \in keyList[1]) THEN st
        ELSE IF response[2]
        THEN LET key == <<name, response[3], None>>
             IN  <<Append(keys, key),
                   IF name \in DOMAIN st[2] THEN st[2] ELSE put(st[2], name, key),
                   put(st[3], name, Len(keys)),
                   clear_idx>>
        ELSE IF name \in DOMAIN st[2]
        THEN LET old == st[2][name]
                 key == <<name, old[2], Some(response[3] - old[2])>>
                 set == [i \in DOMAIN keys |->
                            IF keys[i][2] = old[2] THEN key ELSE keys[i]]
             IN  IF name \in DOMAIN st[3]
                 THEN <<[set EXCEPT ![st[3][name] + 1] = key],
                        pop(st[2], name), pop(st[3], name), clear_idx>>
                 ELSE <<Append(set, key), pop(st[2], name), st[3], clear_idx>>
        ELSE <<keys, st[2], st[3], IF clear THEN clear_idx ELSE st[4] \cup {idx}>>

RECURSIVE get_responses_loop(_, _, _, _, _)
get_responses_loop(st, queue, idx, keyList, clear) ==
    IF idx >= Len(queue) THEN st
    ELSE get_responses_loop(respond(st, idx, queue[idx + 1], keyList, clear),
                            queue, idx + 1, keyList, clear)

\* Lines 513-515: the queue without the entries of clear_idx.
pop_all(queue, clear_idx) ==
    LET left == {i \in DOMAIN queue : (i - 1) \notin clear_idx}
    IN  [j \in 1..Cardinality(left) |->
            queue[CHOOSE i \in left : Cardinality({m \in left : m <= i}) = j]]

\* get_responses: <<keys, rbox.pressed, response_queue, entries not polled>>.
get_responses(pr, queue, line, keyList, clear) ==
    LET p == poll_for_response(queue, line)
        st == get_responses_loop(<<<<>>, pr, <<>>, {}>>, p[1], 0, keyList, clear)
    IN  <<st[1], st[2], pop_all(p[1], st[4]), p[2]>>

\* clear_buffer on a raw response box, lines 373-376.
RECURSIVE clear_box(_, _)
clear_box(queue, line) ==
    LET p == poll_for_response(queue, line)
    IN  IF p[1] = <<>> THEN p ELSE clear_box(<<>>, p[2])

\* clear_buffer: <<event buffer, Keyboard buffer, rbox.pressed,
\* response_queue, entries not polled>> after the call.
clear_buffer(dev, buf, kbuf, pr, queue, line) ==
    IF dev = "None" THEN <<<<>>, kbuf, pr, queue, line>>
    ELSE IF dev = "Keyboard" THEN <<buf, <<>>, pr, queue, line>>
    ELSE IF dev = "CedrusResponseBox"
    THEN LET r == get_responses(pr, queue, line, None, TRUE)
         IN  <<buf, kbuf, r[2], r[3], r[4]>>
    ELSE LET c == clear_box(queue, line)
         IN  <<buf, kbuf, pr, c[1], c[2]>>

\* The response keys and the navigation of a device: those of the keyboard,
\* or the buttons of the box (set_responses, lines 253-257; navigation of
\* the box from resp_inv_mapping).
keys_of(dev) == IF dev \in Boxes THEN BoxKeys ELSE resp_keys
triggers_of(dev) == IF dev \in Boxes THEN [k \in BoxKeys |-> 2] ELSE resp_triggers
navigation_of(dev) ==
    IF dev \in Boxes THEN [k \in BoxKeys |-> IF k = "1" THEN "prev" ELSE "next"]
    ELSE navigation

\* getKeys(device, keyList, only_first=True), lines 239-264: <<the name of
\* the first key (None when the list is empty), the buffers after the read>>.
read_keys(keyList) ==
    IF response_device \in Boxes
    THEN LET r == getKeys(response_queue, box_line, Some(keyList), FALSE, TRUE)
         IN  <<IF r[1][2] = <<>> THEN None ELSE Some(r[1][2][1][1]),
               <<kb, key_buffer, pressed, r[2], r[3]>>>>
    ELSE LET buf == IF response_device = "Keyboard" THEN key_buffer ELSE kb
             got == event_getKeys(buf, keyList)
         IN  <<IF got[1] = <<>> THEN None ELSE Some(got[1][1]),
               IF response_device = "Keyboard"
               THEN <<kb, got[2], pressed, response_queue, box_line>>
               ELSE <<got[2], key_buffer, pressed, response_queue, box_line>>>>

InitInputs(devs) ==
    /\ response_device \in devs
    /\ kb = <<>>
    /\ key_buffer = <<>>
    /\ box_line = <<>>
    /\ response_queue = <<>>
    /\ pressed = <<>>
    /\ arrived = 0
    /\ wait_pc = "idle"
    /\ wait_args = <<None, FALSE, 0>>
    /\ keys_out = Gave("never", <<>>)
    /\ quit_seen = FALSE
    /\ returned = <<>>
    /\ quit_flip = 0 - 1

\* A time of the settings: a number of seconds, a range of two, or 'inf';
\* <<kind, values>>.
Seconds(x) == <<"num", <<x>>>>
Range(a, b) == <<"list", <<a, b>>>>
Inf == <<"inf", <<>>>>

\* int(x / frame_time) + 1 for the rounding of line 785.
to_frames_next(x, ft) == (x \div ft) + 1

\* seconds_to_frames, line 785: int(round(x / frame_time)); round() takes a
\* half to the even neighbour.
to_frames(x, ft) ==
    LET q == x \div ft
        r == x % ft
    IN  IF 2 * r < ft THEN q
        ELSE IF 2 * r > ft THEN q + 1
        ELSE IF q % 2 = 0 THEN q ELSE q + 1

\* seconds_to_frames, lines 782-793.
seconds_to_frames(tis, ft) ==
    [key \in DOMAIN tis |->
        IF tis[key] = Inf THEN <<"inf", <<np_inf>>>>
        ELSE IF tis[key][1] = "list"
        THEN <<"list", [i \in DOMAIN tis[key][2] |-> to_frames(tis[key][2][i], ft)]>>
        ELSE <<"int", <<to_frames(tis[key][2][1], ft)>>>>]

\* The timing tables of the settings and the frame times of the screen.
TimeValues ==
    {Inf} \cup {Seconds(x) : x \in 0..MaxMillis}
          \cup {Range(a, b) : a, b \in 0..MaxMillis}
TimingTables == UNION {[keys -> TimeValues] : keys \in SUBSET {"fix", "cue"}}
FrameMillis == {3, 4, 7}

InitTiming(tabs, fts) ==
    /\ time_in_seconds \in tabs
    /\ measured_frame_time \in fts
    /\ time_in_frames = None

\* Instructions.__init__ and generate: pages are images (or texts) and
\* functions; nextpage is 0 (line 33).
InitInstr(books) ==
    /\ pages \in books
    /\ nextpage = 0
    /\ ins_stop = 0
    /\ ins_pc = "idle"
    /\ turned = <<>>

\* Row labels of the trial table (trials.index): the default RangeIndex, the
\* labels of a table cut out of a longer one, the labels of a table whose
\* rows were put in another order.
labels(kind, n) ==
    [p \in 0..(n - 1) |-> CASE kind = "range" -> p
                            [] kind = "cut" -> p + 10
                            [] kind = "reordered" -> n - 1 - p]

\* current_loc is first assigned in the trial loop.
InitKeys(kinds) ==
    /\ current_loc = None
    /\ index \in {labels(k, Cardinality(DOMAIN trials)) : k \in kinds}
    /\ appended = {}

InitExtras ==
    /\ InitTiming({[k \in {"fix"} |-> Seconds(0)]}, {4})
    /\ InitInstr({<<"image">>})
    /\ InitKeys({"range"})

InitStairs ==
    /\ stair_param = [p \in DOMAIN trials |-> <<None, None>>]
    /\ stair_calls = <<>>
    /\ beh_rt = [p \in DOMAIN trials |-> None]
    /\ finished = FALSE

---------------------------------------------------------------------------
\* The state after construction, a trial table and reset_beh (lines 78-84):
\* the cursor is empty, beh is a fresh copy, the logs and the files are empty.
InitCore(tabs, setts, devs) ==
    /\ trials \in tabs
    /\ settings \in setts
    /\ beh = reset_beh_table(trials)
    /\ beh_writes = [p \in DOMAIN trials |-> 0]
    /\ trigger_log = empty_trigger_log
    /\ current_idx = 0 - 1
    /\ current_trial = 0
    /\ last_beh_save = 0
    /\ last_log_save = 0
    /\ beh_file = <<>>
    /\ trig_file = <<>>
    /\ staircase = None
    /\ pc = "idle"
    /\ args = [staircase |-> None, start_from |-> None, stop_after |-> None,
               stop_at_corr |-> None, min_trials |-> None,
               n_consecutive |-> None, break_every |-> None,
               break_after_error |-> FALSE]
    /\ t_idx = 0
    /\ stop_before_idx = 0
    /\ n_above = 0
    /\ elapsed_trials = 0
    /\ trials_without_break = 0
    /\ show_break = FALSE
    /\ disp_corr = None
    /\ ended = "never"
    /\ events = <<>>
    /\ acc_hist = <<>>
    /\ start_row = 0
    /\ cursor0 = 0 - 1
    /\ shown_before = {}
    /\ calls = 0
    /\ flushes = 0
    /\ InitPresentation
    /\ InitInputs(devs)
    /\ InitStairs

InitOn(tabs, setts, devs) == InitCore(tabs, setts, devs) /\ InitExtras

InitWith(tabs, setts) == InitOn(tabs, setts, {"None"})

\* show_all_trials up to the loop (lines 377-416).  The trial table has its
\* identifier column; a staircase comes with its staircase_param.  A
\* start_from or stop_after that is no identifier of the table raises
\* IndexError at line 408 or 412.
show_all_trials(a) ==
    /\ pc = "idle"
    /\ calls < MaxCalls
    /\ calls' = calls + 1
    /\ args' = with_defaults(a)
    /\ cursor0' = current_idx
    /\ shown_before' = shown_before \cup {events[i].pos : i \in DOMAIN events}
    /\ events' = <<>>
    /\ acc_hist' = <<>>
    /\ LET start == start_trial_idx(trials, current_idx, a.start_from)
           stop == IF a.stop_after = None THEN Some(0)
                   ELSE stop_before(trials, a.stop_after)
       IN  IF start = None \/ stop = None
           THEN /\ pc' = "idle"
                /\ ended' = "bad_argument"
                /\ UNCHANGED <<t_idx, stop_before_idx, n_above, elapsed_trials,
                               trials_without_break, show_break, disp_corr,
                               start_row, staircase>>
           ELSE /\ pc' = "loop"
                /\ ended' = "running"
                /\ t_idx' = start[1]
                /\ start_row' = start[1]
                /\ stop_before_idx' = stop[1]
                /\ n_above' = 0
                /\ elapsed_trials' = 0
                /\ trials_without_break' = 0
                /\ show_break' = FALSE
                /\ disp_corr' = None
                /\ staircase' = a.staircase
    /\ UNCHANGED <<extras, cursor, tables, files, flushes, presentation, inputs, stairs>>

\* handle_staircase that goes on when staircase.next() raises StopIteration.
handle_staircase_go_on(stair, param, made, idx) ==
    IF stair = None THEN <<TRUE, stair, param, made>>
    ELSE IF stair[1] = 0
    THEN <<TRUE, stair, param, Append(made, <<"next", idx, "StopIteration", 0>>)>>
    ELSE <<TRUE, Some(stair[1] - 1),
           [param EXCEPT ![idx] = <<Some(stair[1]), Some(stair[1])>>],
           Append(made, <<"next", idx, "value", stair[1]>>)>>

\* handle_staircase, lines 881-889: <<if_continue, the staircase, the column
\* staircase_param of trials and of beh, the calls made on the staircase>>.
\* The staircase hands out the number of values it has left.
handle_staircase(stair, param, made, idx) ==
    IF stair = None THEN <<TRUE, stair, param, made>>
    ELSE IF stair[1] = 0
    THEN <<FALSE, stair, param, Append(made, <<"next", idx, "StopIteration", 0>>)>>
    ELSE <<TRUE, Some(stair[1] - 1),
           [param EXCEPT ![idx] = <<Some(stair[1]), Some(stair[1])>>],
           Append(made, <<"next", idx, "value", stair[1]>>)>>

\* The row label at a position taken as the position itself.
row_label_pos(idx, t) == t

\* trials.index[t_idx], line 419.
row_label(idx, t) == idx[t]

\* Top of the loop (lines 418-425): the cursor moves to t_idx; the row lookup
\* raises IndexError past the end of the table (current_idx is already set);
\* handle_staircase ends the call when the staircase is exhausted.
loop_head ==
    /\ pc = "loop"
    /\ current_idx' = t_idx
    /\ IF t_idx \notin DOMAIN trials
       THEN /\ pc' = "idle"
            /\ ended' = "index_error"
            /\ UNCHANGED <<current_loc, current_trial, staircase, stair_param,
                           stair_calls>>
       ELSE /\ current_loc' = Some(row_label(index, t_idx))
            /\ current_trial' = trials[t_idx]
            /\ LET h == handle_staircase(staircase, stair_param, stair_calls,
                                         t_idx)
               IN  /\ staircase' = h[2]
                   /\ stair_param' = h[3]
                   /\ stair_calls' = h[4]
                   /\ IF h[1]
                      THEN pc' = "trial" /\ UNCHANGED ended
                      ELSE pc' = "idle" /\ ended' = "staircase"
    /\ UNCHANGED <<timing, instr, index, appended, last_beh_save, last_log_save,
                   tables, files, locals, events, acc_hist, start_row, cursor0,
                   shown_before, calls, flushes, presentation, inputs, beh_rt,
                   finished>>

\* Lines 428-430: show_trial presents the row; the experiment's show_trial
\* sends k triggers and records the outcome through handle_responses.
\* responded: a key was given; without one handle_responses writes
\* ifcorrect False and RT NaN (io_utils.py, lines 338, 344-345, 357).
show_trial_rt(k, ifcorrect, responded) ==
    /\ pc = "trial"
    /\ pc' = "tail"
    /\ ~responded => ~ifcorrect
    /\ trigger_log' = register_triggers(trigger_log, 1, current_trial, k)
    /\ beh' = handle_responses(beh, current_idx, ifcorrect)
    /\ beh_rt' = [beh_rt EXCEPT ![current_idx] =
                      IF responded THEN Some(1) ELSE None]
    /\ beh_writes' = [beh_writes EXCEPT ![current_idx] = @ + 1]
    /\ elapsed_trials' = elapsed_trials + 1
    /\ events' = Append(events, [kind |-> "trial", pos |-> current_idx])
    /\ UNCHANGED <<extras, cursor, trials, settings, files, staircase, args, t_idx,
                   stop_before_idx, n_above, trials_without_break, show_break,
                   disp_corr, ended, acc_hist, start_row, cursor0,
                   shown_before, calls, flushes, presentation, inputs,
                   stair_param, stair_calls, finished>>

show_trial(k, ifcorrect) == show_trial_rt(k, ifcorrect, TRUE)

\* Lines 442-452 without the test of staircase_ignore_na.
inform_staircase_always(a, ifcorr, rt, idx) ==
    IF a.staircase = None THEN None
    ELSE IF keyword(a, "staircase_full_row") THEN Some(<<"row", idx>>)
    ELSE Some(<<"ifcorr", IF ifcorr THEN 1 ELSE 0>>)

\* Lines 442-452: what staircase.addResponse is called with, None when the
\* staircase is not informed.  No RT (None) is NaN.
inform_staircase(a, ifcorr, rt, idx) ==
    IF a.staircase = None THEN None
    ELSE IF keyword(a, "staircase_ignore_na") /\ rt = None THEN None
    ELSE IF keyword(a, "staircase_full_row") THEN Some(<<"row", idx>>)
    ELSE Some(<<"ifcorr", IF ifcorr THEN 1 ELSE 0>>)

\* The rest of the iteration (lines 432-481): the error flag, the flushes, the
\* accuracy stop, the stop boundary, the break check with present_break (its
\* 'break' trigger is logged at the flip of line 556), and the step to the next
\* row.  staircase.addResponse leaves the values the staircase can give alone.
\* quit: the key that ends the wait of the break screen is the quit key, and
\* check_quit (line 558) ends the process there.
loop_tail_key(quit) ==
    /\ pc = "tail"
    /\ LET ifcorr == beh[current_idx].ifcorrect[1]
           show == IF args.break_after_error THEN ~ifcorr ELSE show_break
           corr == IF args.stop_at_corr = None THEN <<n_above, disp_corr>>
                   ELSE LET c == _check_correctness(beh, current_trial, n_above,
                                                    args.stop_at_corr[1])
                        IN  <<c[1], Some(c[2])>>
           stops == /\ args.stop_at_corr # None
                    /\ accuracy_stop(corr[1], args, elapsed_trials)
           stop_idx == stop_boundary(args, trials, stop_before_idx)
           brk == IF skip_break(t_idx, stop_idx)
                  THEN <<trials_without_break, FALSE>>
                  ELSE _check_break(settings, trials_without_break,
                                    args.break_every, show)
           saved_log == trigger_log
           resp == inform_staircase(args, ifcorr, beh_rt[current_idx],
                                    current_idx)
       IN  /\ show_break' = show
           /\ stair_calls' =
                 IF resp = None THEN stair_calls
                 ELSE Append(stair_calls,
                             <<"addResponse", current_idx, resp[1][1], resp[1][2]>>)
           /\ finished' = (finished \/ (~stops /\ ~quit
                                           /\ t_idx + 1 = stop_idx
                                           /\ stop_idx = Cardinality(DOMAIN trials)))
           /\ beh_file' = beh_file \o save_beh_lines(beh, last_beh_save, current_idx)
           /\ last_beh_save' = save_beh_mark(current_idx)
           /\ trig_file' = trig_file \o save_log_lines(trigger_log, last_log_save)
           /\ last_log_save' = save_log_mark(trigger_log)
           /\ n_above' = corr[1]
           /\ disp_corr' = corr[2]
           /\ acc_hist' = IF args.stop_at_corr = None THEN acc_hist
                          ELSE Append(acc_hist, corr[2][1])
           /\ IF stops
              THEN /\ ~quit
                   /\ pc' = "idle"
                   /\ ended' = "accuracy"
                   /\ UNCHANGED <<stop_before_idx, trials_without_break, t_idx,
                                  trigger_log, events>>
              ELSE /\ stop_before_idx' = stop_idx
                   /\ trials_without_break' = brk[1]
                   /\ events' = IF brk[2]
                                THEN Append(events, [kind |-> "break",
                                                     pos |-> current_idx])
                                ELSE events
                   /\ trigger_log' =
                         IF brk[2] /\ settings.break_trigger # None
                         THEN register_trigger(trigger_log,
                                               settings.break_trigger[1],
                                               current_trial)
                         ELSE trigger_log
                   /\ quit => brk[2]
                   /\ IF quit
                      THEN pc' = "exited" /\ ended' = "quit" /\ UNCHANGED t_idx
                      ELSE /\ t_idx' = t_idx + 1
                           /\ IF t_idx + 1 = stop_idx
                              THEN pc' = "idle" /\ ended' = "boundary"
                              ELSE pc' = "loop" /\ UNCHANGED ended
    /\ UNCHANGED <<extras, current_idx, current_trial, trials, settings, beh, beh_writes,
                   staircase, args, elapsed_trials, start_row, cursor0,
                   shown_before, calls, flushes, presentation, inputs,
                   stair_param, beh_rt>>

\* Experiment.reset_beh, lines 78-84, called between two calls of
\* show_all_trials: the cursor and the save marks go back, beh is a fresh
\* copy of trials (with its staircase_param column) and the trigger log is
\* empty.  The files are left alone.
reset_beh ==
    /\ pc = "idle"
    /\ last_beh_save' = 0
    /\ last_log_save' = 0
    /\ current_idx' = 0 - 1
    /\ current_trial' = 0
    /\ beh' = reset_beh_table(trials)
    /\ beh_writes' = [p \in DOMAIN trials |-> 0]
    /\ beh_rt' = [p \in DOMAIN trials |-> None]
    /\ stair_param' = [p \in DOMAIN trials |->
                          <<stair_param[p][1], stair_param[p][1]>>]
    /\ trigger_log' = empty_trigger_log
    /\ finished' = FALSE
    /\ UNCHANGED <<extras, trials, settings, files, staircase, pc, locals, history,
                   presentation, inputs, stair_calls>>

\* The rest of the iteration when the run goes on after a break.
loop_tail == loop_tail_key(FALSE)

\* A table with one row more at its end.
with_row(f, v) ==
    [p \in 0..Cardinality(DOMAIN f) |->
        IF p = Cardinality(DOMAIN f) THEN v ELSE f[p]]

\* A row is added at the end of trials and of beh while the loop runs: by
\* show_trial or post_tri_fun (lines 429, 458-460), or during the break that
\* the last iteration showed (lines 473-477).  The new row has a label that
\* no row has.
append_trial(ident) ==
    /\ \/ pc \in {"trial", "tail"}
       \/ /\ pc = "loop"
          /\ events # <<>>
          /\ events[Len(events)].kind = "break"
    /\ Cardinality(DOMAIN trials) < MaxTrials
    /\ \A p \in DOMAIN trials : trials[p] # ident
    /\ trials' = with_row(trials, ident)
    /\ beh' = with_row(beh, [trial |-> ident, ifcorrect |-> None])
    /\ beh_writes' = with_row(beh_writes, 0)
    /\ beh_rt' = with_row(beh_rt, None)
    /\ stair_param' = with_row(stair_param, <<None, None>>)
    /\ index' = with_row(index,
                         CHOOSE l \in 0..(MaxTrials + 10) :
                             /\ \A p \in DOMAIN index : index[p] < l
                             /\ \A m \in 0..(l - 1) :
                                   \E p \in DOMAIN index : index[p] >= m)
    /\ appended' = appended \cup {Cardinality(DOMAIN trials)}
    /\ UNCHANGED <<timing, instr, current_loc, cursor, settings, trigger_log,
                   files, staircase, pc, locals, history, presentation, inputs,
                   stair_calls, finished>>

\* show_trial when the quit key is pressed at its response wait: the k
\* triggers of the trial are logged, check_quit (io_utils.py, line 341) calls
\* core.quit() before handle_responses writes the outcome (lines 354-357).
quit_trial(k) ==
    /\ pc = "trial"
    /\ pc' = "exited"
    /\ ended' = "quit"
    /\ trigger_log' = register_triggers(trigger_log, 1, current_trial, k)
    /\ UNCHANGED <<extras, cursor, trials, settings, beh, beh_writes, files, staircase,
                   locals, events, acc_hist, start_row, cursor0, shown_before,
                   calls, flushes, presentation, inputs, stairs>>

\* save_beh_data called on its own, between two calls of show_all_trials.
save_beh_data ==
    /\ pc = "idle"
    /\ flushes < MaxFlushes
    /\ flushes' = flushes + 1
    /\ beh_file' = beh_file \o save_beh_lines(beh, last_beh_save, current_idx)
    /\ last_beh_save' = save_beh_mark(current_idx)
    /\ UNCHANGED <<extras, current_idx, current_trial, last_log_save, tables, trig_file,
                   staircase, pc, locals, ended, events, acc_hist, start_row,
                   cursor0, shown_before, calls, presentation, inputs, stairs>>

\* save_trigger_log called on its own, between two calls of show_all_trials.
save_trigger_log ==
    /\ pc = "idle"
    /\ flushes < MaxFlushes
    /\ flushes' = flushes + 1
    /\ trig_file' = trig_file \o save_log_lines(trigger_log, last_log_save)
    /\ last_log_save' = save_log_mark(trigger_log)
    /\ UNCHANGED <<extras, current_idx, current_trial, last_beh_save, tables, beh_file,
                   staircase, pc, locals, ended, events, acc_hist, start_row,
                   cursor0, shown_before, calls, presentation, inputs, stairs>>

\* Experiment.set_triggers, lines 279-289, called after construction (as it
\* has to be when the experiment was made with set_triggers=False): the
\* trigger log is a new empty one and the trigger device is set up again as
\* the settings say.  last_log_save is not touched.
set_triggers ==
    /\ pc = "idle"
    /\ trigger_log # empty_trigger_log
    /\ trigger_log' = empty_trigger_log
    /\ UNCHANGED <<extras, cursor, trials, settings, beh, beh_writes, files,
                   staircase, pc, locals, history, presentation, inputs, stairs>>

\* exp.send_trigger outside the trial loop (an instruction or a block marker).
send_trigger ==
    /\ pc = "idle"
    /\ Len(trigger_log.time) < MaxTrigs
    /\ trigger_log' = register_trigger(trigger_log, 1, current_trial)
    /\ UNCHANGED <<extras, cursor, trials, settings, beh, beh_writes, files, staircase,
                   pc, locals, history, presentation, inputs, stairs>>

---------------------------------------------------------------------------
\* The state of the trial sequencer but the trigger log.
sequencer == <<cursor, trials, settings, beh, beh_writes, files, staircase, pc,
               locals, history, stairs>>

\* window.flip(): the buffer swap takes d half frames, then the calls
\* scheduled by callOnFlip run in the order of the schedule and the schedule
\* is cleared.  exp.send_trigger is register_trigger (log only) or
\* send_trigger_cpod (line 101, the hardware write, then register_trigger);
\* a hardware write that raises ends the flip there, its exception going up
\* through the caller, and the schedule is left as it was.
flip(q, d, fail_at, show, flip_no) ==
    LET ex == executed(q, fail_at)
    IN  /\ fail_at \in 0..(IF trigger_device = "cpod" THEN Len(q) ELSE 0)
        /\ trigger_log' = register_all(trigger_log, ex, current_trial)
        /\ hw_out' = hw_out \o activate_lines(trigger_device, ex)
        /\ clock_time' = clock_after(clock_time, ex, d)
        /\ emitted' = emitted \o emissions(ex, show, flip_no)
        /\ to_call' = IF fail_at = 0 THEN <<>> ELSE q
        /\ hw_errors' = hw_errors + (IF fail_at = 0 THEN 0 ELSE 1)
        /\ flip_raised' = (fail_at # 0)
        /\ UNCHANGED <<trigger_device, warnings>>

\* The locals of show_element as the call leaves them.
el_state(pcv, res, nf, off) ==
    /\ el_pc' = pcv
    /\ el_result' = res
    /\ n_frames' = nf
    /\ trigger_off' = off
    /\ frame_idx' = 0
    /\ total_time' = 0

\* Lines 674-676: the value show_element falls out of the loop with.
loop_result(e) ==
    IF e.await_response THEN Returned("nan", "", 0) ELSE Returned("None", "", 0)

\* show_element up to the loop (lines 594-642).  elem[0] of an empty list is an
\* IndexError (lines 613, 623), a name without a time a KeyError (line 107),
\* an indefinite time without await_response the RuntimeError of line 626,
\* and trigger_off_time >= time with time None a TypeError (line 629).
show_element(e) ==
    /\ el_pc = "idle"
    /\ ~flip_raised
    /\ shows' = shows + 1
    /\ el' = e
    /\ flips' = 0
    /\ draws' = 0
    /\ polls' = 0
    /\ since_onset' = 0
    /\ LET names == e.elem[2]
           clock == IF e.reset_clock = "False" THEN "False" ELSE "Clock"
       IN  IF e.trigger = TrigNone /\ names = <<>>
           THEN /\ el_state("idle", Raised("IndexError"), n_frames, trigger_off)
                /\ UNCHANGED <<to_call, scheduled, needs_drawing, el_clock>>
           ELSE LET trig == IF e.trigger # TrigNone THEN e.trigger
                            ELSE TrigName(names[1])
                    q == IF send_this_trigger(e)
                         THEN set_trigger(to_call, trig, clock = "Clock", shows + 1)
                         ELSE to_call
                IN  /\ to_call' = q
                    /\ scheduled' = scheduled \o
                          [i \in 1..(Len(q) - Len(to_call)) |-> q[Len(to_call) + i][1]]
                    /\ needs_drawing' = (e.elem[1] \/ names[1] \in stim)
                    /\ el_clock' = clock
                    /\ IF e.time = None /\ names = <<>>
                       THEN el_state("idle", Raised("IndexError"), n_frames,
                                     trigger_off)
                       ELSE IF e.time = None /\ get_time(names[1]) = {}
                       THEN el_state("idle", Raised("KeyError"), n_frames,
                                     trigger_off)
                       ELSE \E n \in (IF e.time = None THEN get_time(names[1])
                                      ELSE {e.time[1]}) :
                            IF indefinite(n, e.await_response)
                            THEN el_state("idle", Raised("RuntimeError"), n,
                                          trigger_off)
                            ELSE IF e.trigger_off_time # None /\ e.time = None
                            THEN el_state("idle", Raised("TypeError"), n,
                                          trigger_off)
                            ELSE IF continue_loop(0, n, 0)
                            THEN el_state("loop", Returned("running", "", 0), n,
                                          trigger_off_after(e))
                            ELSE el_state("idle", loop_result(e), n,
                                          trigger_off_after(e))
    /\ UNCHANGED <<extras, sequencer, inputs, trigger_log, trigger_device, hw_out, clock_time,
                   flip_raised, warnings, emitted, hw_errors>>

\* One iteration of the frames loop (lines 642-672) and the loop test that
\* follows it: the clear trigger is scheduled at frame trigger_off_time, the
\* elements are drawn (a name that is no stimulus is the KeyError of line
\* 652), the window is flipped, the response device is polled (key: the key
\* "f" is pressed right before the poll; the poll also finds the response
\* keys pressed since the last read), the frame counter and total_time move
\* on.
frame(d, key, fail_at) ==
    /\ el_pc = "loop"
    /\ key => el.await_response
    /\ (n_frames = np_inf /\ frame_idx >= MaxFrames) => key
    /\ LET q == IF trigger_off # None /\ frame_idx = trigger_off[1]
                THEN set_trigger(to_call, TrigInt(0), FALSE, shows)
                ELSE to_call
           names == el.elem[2]
           unknown == IF needs_drawing
                      THEN {i \in DOMAIN names : names[i] \notin stim} ELSE {}
           drawn == IF ~needs_drawing THEN 0
                    ELSE IF unknown = {} THEN Len(names)
                    ELSE Min(unknown) - 1
           onset == IF frame_idx = 0 THEN 0 ELSE since_onset + d
           read == read_keys(keys_of(response_device)
                                 \cup (IF quit_enabled THEN {quit_button} ELSE {}))
           found == key \/ (el.await_response /\ read[1] # None)
           polled == unknown = {} /\ fail_at = 0 /\ el.await_response
       IN  /\ draws' = draws + drawn
           /\ kb' = IF polled THEN read[2][1] ELSE kb
           /\ key_buffer' = IF polled THEN read[2][2] ELSE key_buffer
           /\ response_queue' = IF polled THEN read[2][4] ELSE response_queue
           /\ box_line' = IF polled THEN read[2][5] ELSE box_line
           /\ scheduled' = scheduled \o
                 [i \in 1..(Len(q) - Len(to_call)) |-> q[Len(to_call) + i][1]]
           /\ IF unknown # {}
              THEN /\ d = frame_time /\ ~key /\ fail_at = 0
                   /\ to_call' = q
                   /\ el_pc' = "idle"
                   /\ el_result' = Raised("KeyError")
                   /\ UNCHANGED <<trigger_log, trigger_device, hw_out,
                                  clock_time, flip_raised, warnings, emitted,
                                  hw_errors, flips, polls, since_onset,
                                  frame_idx, total_time>>
              ELSE /\ flip(q, d, fail_at, shows, flips)
                   /\ flips' = flips + 1
                   /\ since_onset' = onset
                   /\ IF fail_at # 0
                      THEN /\ ~key
                           /\ el_pc' = "idle"
                           /\ el_result' = Raised("HardwareError")
                           /\ UNCHANGED <<polls, frame_idx, total_time>>
                      ELSE /\ polls' = polls + (IF el.await_response THEN 1 ELSE 0)
                           /\ IF found
                              THEN /\ el_pc' = "idle"
                                   /\ el_result' =
                                         key_result(el_clock,
                                                    IF read[1] # None THEN read[1][1]
                                                    ELSE "f",
                                                    clock_time')
                                   /\ UNCHANGED <<frame_idx, total_time>>
                              ELSE /\ frame_idx' = frame_idx + 1
                                   /\ total_time' = onset
                                   /\ IF continue_loop(frame_idx + 1, n_frames, onset)
                                      THEN UNCHANGED <<el_pc, el_result>>
                                      ELSE /\ el_pc' = "idle"
                                           /\ el_result' = loop_result(el)
    /\ UNCHANGED <<extras, sequencer, waits, quit_seen, quit_flip, pressed, arrived,
                   returned, el, needs_drawing, el_clock, n_frames, trigger_off,
                   shows>>

\* set_trigger called on its own (as present_break does, line 511).  The code
\* the call asks for is kept to compare the emissions with.
call_set_trigger(event) ==
    /\ el_pc = "idle"
    /\ ~flip_raised
    /\ Len(scheduled) < MaxScheduled
    /\ to_call' = set_trigger(to_call, event, FALSE, 0)
    /\ scheduled' = IF event[1] = "int" THEN Append(scheduled, event[2])
                    ELSE IF event[3] = "fix" THEN Append(scheduled, 1)
                    ELSE scheduled
    /\ UNCHANGED <<extras, sequencer, inputs, trigger_log, trigger_device, hw_out, clock_time,
                   flip_raised, warnings, el_locals, since_onset, flips, draws,
                   polls, emitted, shows, hw_errors>>

\* window.flip() outside show_element (as in present_break, line 556).
window_flip(d, fail_at) ==
    /\ el_pc = "idle"
    /\ ~flip_raised
    /\ to_call # <<>>
    /\ flip(to_call, d, fail_at, 0, 0)
    /\ UNCHANGED <<extras, sequencer, inputs, el_locals, since_onset, flips, draws, polls,
                   shows, scheduled>>

\* set_up_triggers, lines 50-70: log only, or the c-pod.
set_up_triggers(send_triggers) ==
    /\ el_pc = "idle"
    /\ ~flip_raised
    /\ trigger_device # (IF send_triggers THEN "cpod" ELSE "none")
    /\ trigger_device' = IF send_triggers THEN "cpod" ELSE "none"
    /\ UNCHANGED <<extras, sequencer, inputs, trigger_log, to_call, hw_out, clock_time,
                   flip_raised, warnings, el_locals, el_history>>

---------------------------------------------------------------------------
\* A key of the keyboard is pressed: psychopy.event and, when there is one,
\* the Keyboard object hold it until it is read.
press(k) ==
    /\ wait_pc # "exited"
    /\ Len(kb) < MaxKeys
    /\ kb' = Append(kb, k)
    /\ key_buffer' = IF response_device = "Keyboard" THEN Append(key_buffer, k)
                     ELSE key_buffer
    /\ quit_seen' = (quit_seen \/ (k = quit_button /\ wait_pc # "idle"))
    /\ quit_flip' = IF k = quit_button /\ el_pc = "loop" /\ quit_flip < 0
                    THEN flips ELSE quit_flip
    /\ UNCHANGED <<extras, sequencer, trigger_log, presentation, box, waits>>

\* A button of the response box is pressed or released: the box sends an
\* entry stamped with its clock.
button(key, down) ==
    /\ wait_pc # "exited"
    /\ response_device \in Boxes
    /\ arrived < MaxEntries
    /\ arrived' = arrived + 1
    /\ box_line' = Append(box_line, <<key, down, arrived + 1>>)
    /\ UNCHANGED <<extras, sequencer, trigger_log, presentation, keyboard, waits,
                   response_queue, pressed, returned>>

\* The program enters waitKeys: event.waitKeys and Keyboard.waitKeys drop the
\* presses made before the call; the loop of lines 212-219 drops nothing.
begin_wait(kind, keyList, flag, buffers) ==
    /\ wait_pc = "idle"
    /\ wait_pc' = kind
    /\ wait_args' = <<keyList, flag, arrived>>
    /\ keys_out' = Gave("waiting", <<>>)
    /\ quit_seen' = FALSE
    /\ kb' = IF response_device = "None" THEN <<>> ELSE buffers[1]
    /\ key_buffer' = IF response_device = "Keyboard" THEN <<>> ELSE buffers[2]
    /\ pressed' = buffers[3]
    /\ response_queue' = buffers[4]
    /\ box_line' = buffers[5]
    /\ UNCHANGED <<timing, rowkeys, sequencer, trigger_log, presentation, response_device,
                   arrived, returned, quit_flip>>

buffers_now == <<kb, key_buffer, pressed, response_queue, box_line>>

\* waitKeys called on its own.
call_waitKeys(keyList, timeStamped) ==
    /\ begin_wait("waitKeys", keyList, timeStamped, buffers_now)
    /\ UNCHANGED instr

\* present_break, line 557 (the flip of line 556 is window_flip).
present_break ==
    /\ begin_wait("break", None, FALSE, buffers_now)
    /\ UNCHANGED instr

\* handle_responses without a key, lines 334-336.
wait_response(send) ==
    /\ begin_wait("response",
                  Some(keys_of(response_device)
                           \cup (IF quit_enabled THEN {quit_button} ELSE {})),
                  send, buffers_now)
    /\ UNCHANGED instr

\* Instructions.show_page, lines 94-111: the page is flipped, the buffer of
\* the device is cleared and the wait for a navigation key begins.
page_wait(allow_finish) ==
    begin_wait("page",
               Some(IF response_device \in Boxes THEN BoxKeys
                    ELSE allow_keys(allow_finish)),
               allow_finish,
               clear_buffer(response_device, kb, key_buffer, pressed,
                            response_queue, box_line))

\* show_page called on its own, on a page that is drawn.
show_page(allow_finish) ==
    /\ ins_pc = "idle"
    /\ page_wait(allow_finish)
    /\ UNCHANGED instr

\* Instructions.present, lines 66-76, with pages generated: start and stop
\* default to nextpage and to the number of pages.
present(start, stop) ==
    /\ ins_pc = "idle"
    /\ wait_pc = "idle"
    /\ Len(turned) < MaxTurns
    /\ nextpage' = IF start = None THEN nextpage ELSE start[1]
    /\ ins_stop' = IF stop = None THEN Len(pages) ELSE stop[1]
    /\ ins_pc' = "loop"
    /\ UNCHANGED <<sequencer, trigger_log, presentation, inputs, timing, rowkeys,
                   pages, turned>>

\* Lines 77-79 and show_page, lines 88-115: the loop ends when nextpage has
\* reached stop; a page that is a function is called and gives 'next'; any
\* other page is drawn and waits for a key.  pages[page_num] is at index
\* nextpage + 1 here.
present_page ==
    /\ ins_pc = "loop"
    /\ wait_pc = "idle"
    /\ IF nextpage >= ins_stop
       THEN /\ ins_pc' = "idle"
            /\ UNCHANGED <<sequencer, trigger_log, presentation, timing, rowkeys,
                           inputs, nextpage, turned>>
       ELSE /\ Len(turned) < MaxTurns
            /\ IF pages[nextpage + 1] = "callback"
               THEN /\ turned' = Append(turned, <<nextpage, "callback", "next",
                                              nextpage = ins_stop - 1>>)
                    /\ nextpage' = nextpage + 1
                    /\ UNCHANGED <<sequencer, trigger_log, presentation,
                                   timing, rowkeys, inputs, ins_pc>>
               ELSE /\ page_wait(nextpage = ins_stop - 1)
                    /\ ins_pc' = "page"
                    /\ UNCHANGED <<nextpage, turned>>
    /\ UNCHANGED <<pages, ins_stop>>

\* Lines 81-85: the action of the key moves nextpage.
turn_page ==
    /\ ins_pc = "page"
    /\ wait_pc = "idle"
    /\ LET action == keys_out[2][1][1]
       IN  /\ turned' = Append(turned, <<nextpage, "image", action,
                                     nextpage = ins_stop - 1>>)
           /\ nextpage' = IF action \in {"next", "finish"} THEN nextpage + 1
                           ELSE IF action = "prev"
                           THEN (IF nextpage - 1 > 0 THEN nextpage - 1 ELSE 0)
                           ELSE nextpage
    /\ ins_pc' = "loop"
    /\ UNCHANGED <<sequencer, trigger_log, presentation, inputs, timing, rowkeys,
                   pages, ins_stop>>

\* What waitKeys has to go on: <<the key that ends the wait as <<name, time>>
\* (None when there is none yet), the buffers as the read leaves them>>.
found_key ==
    IF response_device \in Boxes
    THEN LET r == waitKeys(response_queue, box_line, wait_args[1])
         IN  <<IF r[1] = None THEN None ELSE Some(<<r[1][1][1], r[1][1][3]>>),
               <<kb, key_buffer, pressed, r[2], r[3]>>>>
    ELSE LET buf == IF response_device = "Keyboard" THEN key_buffer ELSE kb
             got == IF wait_args[1] = None THEN <<buf, <<>>>>
                    ELSE event_getKeys(buf, wait_args[1][1])
         IN  <<IF got[1] = <<>> THEN None ELSE Some(<<got[1][1], 0>>),
               IF response_device = "Keyboard"
               THEN <<kb, got[2], pressed, response_queue, box_line>>
               ELSE <<got[2], key_buffer, pressed, response_queue, box_line>>>>

\* What follows waitKeys in the caller: <<what it gives back, where the
\* program stands, the event buffer>>.  handle_responses sends the trigger of
\* the key (line 340, a KeyError when the key has none) before check_quit
\* (line 341); show_page looks the action up (line 112).
after_wait(kind, k, flag, buf) ==
    LET cq == check_quit(response_device, k[1], buf)
    IN  IF kind = "waitKeys"
        THEN <<Gave(IF flag THEN "pair" ELSE "key", <<<<k[1], IF flag THEN k[2] ELSE 0>>>>),
               "idle", buf>>
        ELSE IF kind = "page"
        THEN <<Gave("action", <<<<navigation_of(response_device)[k[1]], k[2]>>>>),
               "idle", buf>>
        ELSE IF kind = "response" /\ flag
                  /\ k[1] \notin DOMAIN triggers_of(response_device)
        THEN <<Gave("raise", <<<<"KeyError", 0>>>>), "idle", buf>>
        ELSE IF cq[1] THEN <<Quit, "exited", cq[2]>>
        ELSE <<Gave(IF kind = "response" THEN "pair" ELSE "key", <<k>>),
               "idle", cq[2]>>

\* waitKeys reads what has come in: it returns on the first press it accepts
\* and goes on waiting when there is none.
key_read ==
    /\ wait_pc \notin {"idle", "exited"}
    /\ found_key[2] # buffers_now \/ found_key[1] # None
    /\ LET k == found_key[1]
           b == found_key[2]
           r == after_wait(wait_pc, k[1], wait_args[2], b[1])
       IN  /\ key_buffer' = b[2]
           /\ pressed' = b[3]
           /\ response_queue' = b[4]
           /\ box_line' = b[5]
           /\ IF k = None
              THEN /\ kb' = b[1]
                   /\ UNCHANGED <<wait_pc, keys_out>>
              ELSE /\ keys_out' = r[1]
                   /\ wait_pc' = r[2]
                   /\ kb' = r[3]
    /\ UNCHANGED <<extras, sequencer, trigger_log, presentation, response_device,
                   wait_args, quit_seen, quit_flip, arrived, returned>>

\* getKeys called on a response box.
call_getKeys(keyList, timeStamped, only_first) ==
    /\ wait_pc = "idle"
    /\ response_device \in Boxes
    /\ LET r == getKeys(response_queue, box_line, keyList, timeStamped,
                        only_first)
       IN  /\ keys_out' = r[1]
           /\ response_queue' = r[2]
           /\ box_line' = r[3]
    /\ wait_args' = <<keyList, only_first, arrived>>
    /\ UNCHANGED <<extras, sequencer, trigger_log, presentation, keyboard,
                   response_device, wait_pc, pressed, arrived, returned>>

\* CedrusResponseBox.getKeys, lines 453-456.  The history keeps, for each
\* call, the times of the presses it read and of the keys it returned.
rbox_getKeys(keyList, waitRelease, clear) ==
    /\ wait_pc = "idle"
    /\ response_device = "CedrusResponseBox"
    /\ Len(returned) < MaxCalls
    /\ wait_args' = <<keyList, clear, arrived>>
    /\ IF waitRelease
       THEN /\ keys_out' = Gave("raise", <<<<"NotImplementedError", 0>>>>)
            /\ UNCHANGED <<response_queue, box_line, pressed, returned>>
       ELSE LET r == get_responses(pressed, response_queue, box_line, keyList,
                                   clear)
                read == poll_for_response(response_queue, box_line)[1]
            IN  /\ keys_out' = Gave("list", [i \in DOMAIN r[1] |->
                                                <<r[1][i][1], r[1][i][2]>>])
                /\ pressed' = r[2]
                /\ response_queue' = r[3]
                /\ box_line' = r[4]
                /\ returned' = Append(returned,
                      <<{read[i][3] : i \in {j \in DOMAIN read : read[j][2]}},
                        [i \in DOMAIN r[1] |-> r[1][i][2]], clear>>)
    /\ UNCHANGED <<extras, sequencer, trigger_log, presentation, keyboard,
                   response_device, wait_pc, arrived>>

\* set_window, lines 166-178: the times of the settings are translated to
\* frames once, with the frame time given or measured.
set_window ==
    /\ time_in_frames = None
    /\ time_in_frames' = Some(seconds_to_frames(time_in_seconds,
                                                measured_frame_time))
    /\ UNCHANGED <<sequencer, trigger_log, presentation, inputs, instr,
                   rowkeys, time_in_seconds, measured_frame_time>>

---------------------------------------------------------------------------
NoSettings == {[break_every_n_trials |-> None, break_trigger |-> None]}

PlainArgs(sf, sa) ==
    [staircase |-> None, start_from |-> sf, stop_after |-> sa,
     stop_at_corr |-> None, min_trials |-> None, n_consecutive |-> None,
     break_every |-> None, break_after_error |-> FALSE]

\* Sequencing: any table, calls with start_from and stop_after; the trials
\* send no trigger and their outcome, which no decision reads here, is correct.
Init == InitWith(TrialTables, NoSettings)

Call == \E sf, sa \in Opt(Ids) : show_all_trials(PlainArgs(sf, sa))

Present == show_trial(0, TRUE)

Next ==
    \/ Call
    \/ loop_head
    \/ Present
    \/ loop_tail

Spec == Init /\ [][Next]_vars

\* Flushing: tables in identifier order, trials that log triggers, a break
\* after every second trial that logs the 'break' trigger, flushes and
\* triggers between the calls.
BreakSettings == {[break_every_n_trials |-> Some(2), break_trigger |-> Some(2)]}

InitFlush == InitWith(SortedTables, NoSettings \cup BreakSettings)

PresentFlush == \E k \in 0..MaxTrigs : show_trial(k, TRUE)

NextFlush ==
    \/ Call
    \/ loop_head
    \/ PresentFlush
    \/ loop_tail
    \/ save_beh_data
    \/ save_trigger_log
    \/ send_trigger

SpecFlush == InitFlush /\ [][NextFlush]_vars

\* Accuracy stop: any table; at most one plain run (possibly partial) and then
\* one call with stop_at_corr = 1/2; trials of either outcome.
AccArgs(sf, nc, mt) ==
    [staircase |-> None, start_from |-> sf, stop_after |-> None,
     stop_at_corr |-> Some(<<1, 2>>), min_trials |-> mt, n_consecutive |-> nc,
     break_every |-> None, break_after_error |-> FALSE]

InitAcc == InitWith(TrialTables, NoSettings)

CallBefore ==
    /\ calls = 0
    /\ \E sa \in Opt(Ids) : show_all_trials(PlainArgs(None, sa))

CallAcc ==
    /\ calls <= 1
    /\ args.stop_at_corr = None
    /\ \E sf \in Opt(Ids), nc \in Opt({1, 2}), mt \in Opt({2}) :
          show_all_trials(AccArgs(sf, nc, mt))

PresentAny == \E ifcorrect \in BOOLEAN : show_trial(0, ifcorrect)

NextAcc ==
    \/ CallBefore
    \/ CallAcc
    \/ loop_head
    \/ PresentAny
    \/ loop_tail

SpecAcc == InitAcc /\ [][NextAcc]_vars

\* The accuracy scenario: ten trials 1..10, stop_at_corr = 0.8,
\* n_consecutive = 2, min_trials = 5, trials 5 to 9 correct.
Contiguous(n) == [p \in 0..(n - 1) |-> p + 1]

ScenarioArgs ==
    [staircase |-> None, start_from |-> None, stop_after |-> None,
     stop_at_corr |-> Some(<<4, 5>>), min_trials |-> Some(5),
     n_consecutive |-> Some(2), break_every |-> None,
     break_after_error |-> FALSE]

InitScenario == InitWith({Contiguous(10)}, NoSettings)

CallScenario == calls = 0 /\ show_all_trials(ScenarioArgs)

PresentScenario ==
    \E ifcorrect \in BOOLEAN :
        /\ current_trial \in 5..9 => ifcorrect
        /\ show_trial(0, ifcorrect)

NextScenario ==
    \/ CallScenario
    \/ loop_head
    \/ PresentScenario
    \/ loop_tail

SpecScenario == InitScenario /\ [][NextScenario]_vars

\* Breaks: one call on a table 1..n with a break interval (argument or
\* setting), break_after_error, a stop_after, an accuracy stop or a staircase.
BreakArgs(st, sa, acc, every, err) ==
    [staircase |-> st, start_from |-> None, stop_after |-> sa,
     stop_at_corr |-> IF acc THEN Some(<<1, 2>>) ELSE None,
     min_trials |-> IF acc THEN Some(2) ELSE None, n_consecutive |-> None,
     break_every |-> every, break_after_error |-> err]

IntervalSettings == {[break_every_n_trials |-> Some(2), break_trigger |-> None]}

InitBreak ==
    InitWith({Contiguous(n) : n \in 1..(MaxTrials + 2)},
             NoSettings \cup IntervalSettings)

CallBreak ==
    /\ calls = 0
    /\ \E st \in Opt(0..MaxStair), sa \in {None, Some(MaxTrials)},
          acc \in BOOLEAN, every \in Opt(0..2), err \in BOOLEAN :
          show_all_trials(BreakArgs(st, sa, acc, every, err))

NextBreak ==
    \/ CallBreak
    \/ loop_head
    \/ PresentAny
    \/ loop_tail

SpecBreak == InitBreak /\ [][NextBreak]_vars

\* Triggers: set_trigger calls and window flips in any order, on either
\* trigger device, around brief presentations.
OneTrial == {Contiguous(1)}

ElemArgs(elem, time, trigger, reset_clock, await_response, off) ==
    [time |-> time, trigger |-> trigger, await_response |-> await_response,
     elem |-> elem, trigger_off_time |-> off, reset_clock |-> reset_clock]

Events == {TrigInt(0), TrigInt(5), TrigName("fix"), TrigName("ghost")}

InitTrig == InitWith(OneTrial, NoSettings)

SetUp == \E send_triggers \in BOOLEAN : set_up_triggers(send_triggers)

SetTrigger == \E event \in Events : call_set_trigger(event)

Flip == window_flip(frame_time, 0)

ShowBrief ==
    /\ shows = 0
    /\ \E time \in 0..2, trigger \in {TrigNone, TrigInt(5)}, off \in Opt({1}) :
          show_element(ElemArgs(ElemStr("fix"), Some(time), trigger, "False",
                                FALSE, off))

FrameOnTime == frame(frame_time, FALSE, 0)

NextTrig ==
    \/ SetUp
    \/ SetTrigger
    \/ Flip
    \/ ShowBrief
    \/ FrameOnTime

SpecTrig == InitTrig /\ [][NextTrig]_vars

\* Hardware: as above on the c-pod, whose write can raise at any flip.
InitHw == InitWith(OneTrial, NoSettings)

FlipHw == \E fail_at \in 0..MaxScheduled : window_flip(frame_time, fail_at)

NextHw ==
    \/ SetUp
    \/ SetTrigger
    \/ FlipHw

SpecHw == InitHw /\ [][NextHw]_vars

\* Presentation: one call of show_element with any arguments, flips that take
\* one frame each, a response at any poll.
Elems ==
    {ElemStr(n) : n \in Names}
        \cup {ElemList(<<>>), ElemList(<<"ghost">>), ElemList(<<"fix", "cue">>)}
Times == Opt(0..MaxFrames) \cup {Some(np_inf)}
Triggers == {TrigNone, TrigInt(5), TrigName("fix"), TrigName("ghost"), TrigFalse}
Clocks == {"False", "True", "Clock"}

InitElem == InitWith(OneTrial, NoSettings)

CallElem ==
    /\ shows = 0
    /\ \E elem \in Elems, time \in Times, trigger \in Triggers,
          reset_clock \in Clocks, await_response \in BOOLEAN,
          off \in Opt(0..MaxFrames) :
          show_element(ElemArgs(elem, time, trigger, reset_clock,
                                await_response, off))

FrameElem == \E key \in BOOLEAN : frame(frame_time, key, 0)

NextElem ==
    \/ CallElem
    \/ FrameElem

SpecElem == InitElem /\ [][NextElem]_vars

\* Frame timing: one call on a known stimulus, flips of any length.
InitFrames == InitWith(OneTrial, NoSettings)

CallFrames ==
    /\ shows = 0
    /\ \E elem \in {ElemStr("fix"), ElemStr("cue")}, time \in 0..MaxFrames,
          trigger \in {TrigNone, TrigInt(5), TrigName("fix"), TrigFalse},
          reset_clock \in Clocks, await_response \in BOOLEAN,
          off \in Opt({1, 2}) :
          show_element(ElemArgs(elem, Some(time), trigger, reset_clock,
                                await_response, off))

FrameAnyTime == \E d \in FlipTimes, key \in BOOLEAN : frame(d, key, 0)

NextFrames ==
    \/ CallFrames
    \/ FrameAnyTime

SpecFrames == InitFrames /\ [][NextFrames]_vars

\* Waits: the break screen, the response wait and the instruction pages on a
\* keyboard (plain or Keyboard object), with the keys pressed at the wait, one
\* at a time: waitKeys reads a key it accepts before the next one is pressed.
InitQuit == InitOn(OneTrial, NoSettings, {"None", "Keyboard"})

PressAtWait ==
    \E k \in KeyNames : wait_pc # "idle" /\ found_key[1] = None /\ press(k)

WaitResponse == \E send \in BOOLEAN : wait_response(send)

ShowPage == \E allow_finish \in BOOLEAN : show_page(allow_finish)

NextQuit ==
    \/ present_break
    \/ WaitResponse
    \/ ShowPage
    \/ PressAtWait
    \/ key_read

SpecQuit == InitQuit /\ [][NextQuit]_vars

\* Quitting: one run over a table in identifier order, trials that log
\* triggers, breaks that log the 'break' trigger, and the quit key at the
\* response wait of a trial or at a break screen.
InitExit == InitWith(SortedTables, BreakSettings)

CallExit == calls = 0 /\ show_all_trials(PlainArgs(None, None))

QuitTrial == \E k \in 0..MaxTrigs : quit_trial(k)

LoopTail == \E quit \in BOOLEAN : loop_tail_key(quit)

NextExit ==
    \/ CallExit
    \/ loop_head
    \/ PresentFlush
    \/ QuitTrial
    \/ LoopTail

SpecExit == InitExit /\ [][NextExit]_vars

\* Quit key in the frame loop: one call on a known stimulus of one to
\* MaxFrames frames, with and without await_response, on a keyboard, and a
\* key pressed while the loop runs.
InitQuitFrames == InitOn(OneTrial, NoSettings, {"None", "Keyboard"})

CallQuitFrames ==
    /\ shows = 0
    /\ \E time \in 1..MaxFrames, reset_clock \in Clocks,
          await_response \in BOOLEAN, trigger \in {TrigNone, TrigFalse} :
          show_element(ElemArgs(ElemStr("fix"), Some(time), trigger,
                                reset_clock, await_response, None))

FrameQuit == frame(frame_time, FALSE, 0)

PressInLoop == \E k \in {"f", quit_button} : el_pc = "loop" /\ press(k)

NextQuitFrames ==
    \/ CallQuitFrames
    \/ FrameQuit
    \/ PressInLoop

SpecQuitFrames == InitQuitFrames /\ [][NextQuitFrames]_vars

\* Response box: a raw box or a CedrusResponseBox whose buttons are pressed
\* and released at any time, read by waitKeys, by getKeys and by
\* CedrusResponseBox.getKeys, with any key list.
KeyLists == {None, Some({"1"})}

InitBox == InitOn(OneTrial, NoSettings, Boxes)

Button == \E key \in BoxKeys, down \in BOOLEAN : button(key, down)

CallWaitKeys ==
    \E keyList \in KeyLists, timeStamped \in BOOLEAN :
        call_waitKeys(keyList, timeStamped)

CallGetKeys ==
    \E keyList \in KeyLists, timeStamped, only_first \in BOOLEAN :
        call_getKeys(keyList, timeStamped, only_first)

RboxGetKeys ==
    \E keyList \in KeyLists, waitRelease, clear \in BOOLEAN :
        rbox_getKeys(keyList, waitRelease, clear)

\* CedrusResponseBox.getKeys(clear=False) leaves what it read in
\* response_queue.
Peek == \E keyList \in KeyLists : rbox_getKeys(keyList, FALSE, FALSE)

NextBox ==
    \/ Button
    \/ CallWaitKeys
    \/ key_read
    \/ CallGetKeys
    \/ Peek

SpecBox == InitBox /\ [][NextBox]_vars

\* CedrusResponseBox.getKeys alone, called with any arguments between the
\* presses and releases.
InitRbox == InitOn(OneTrial, NoSettings, {"CedrusResponseBox"})

NextRbox ==
    \/ Button
    \/ RboxGetKeys

SpecRbox == InitRbox /\ [][NextRbox]_vars

\* Instruction pages on every kind of device: keys and buttons are pressed
\* before a page is shown and while it waits.
InitPage == InitOn(OneTrial, NoSettings, Devices)

PressAnyTime ==
    \E k \in {"left", "space"} : response_device \notin Boxes /\ press(k)

NextPage ==
    \/ PressAnyTime
    \/ Button
    \/ ShowPage
    \/ key_read

SpecPage == InitPage /\ [][NextPage]_vars

\* Staircase: one call with a staircase of 0 to MaxStair values, from any
\* row of a table in identifier order, with and without staircase_full_row
\* and staircase_ignore_na; trials with and without a response.
StairArgs(st, sf, full_row, ignore_na) ==
    [staircase |-> st, start_from |-> sf, stop_after |-> None,
     stop_at_corr |-> None, min_trials |-> None, n_consecutive |-> None,
     break_every |-> None, break_after_error |-> FALSE,
     staircase_full_row |-> full_row, staircase_ignore_na |-> ignore_na]

InitStair == InitWith(SortedTables, NoSettings)

CallStair ==
    /\ calls = 0
    /\ \E n \in 0..MaxStair, sf \in Opt(Ids), full_row, ignore_na \in BOOLEAN :
          show_all_trials(StairArgs(Some(n), sf, full_row, ignore_na))

PresentStair ==
    \E ifcorrect, responded \in BOOLEAN : show_trial_rt(0, ifcorrect, responded)

NextStair ==
    \/ CallStair
    \/ loop_head
    \/ PresentStair
    \/ loop_tail

SpecStair == InitStair /\ [][NextStair]_vars

\* Finished runs: calls with and without start_from on any table, and
\* reset_beh between them.
InitFinish == InitWith(TrialTables, NoSettings)

CallFinish == \E sf \in Opt(Ids) : show_all_trials(PlainArgs(sf, None))

NextFinish ==
    \/ CallFinish
    \/ loop_head
    \/ Present
    \/ loop_tail
    \/ reset_beh

SpecFinish == InitFinish /\ [][NextFinish]_vars

\* Timing tables: any table over two names with seconds, ranges and 'inf',
\* translated with any of the frame times.
InitTimes ==
    /\ InitCore(OneTrial, NoSettings, {"None"})
    /\ InitTiming(TimingTables, FrameMillis)
    /\ InitInstr({<<"image">>})
    /\ InitKeys({"range"})

NextTimes == set_window

SpecTimes == InitTimes /\ [][NextTimes]_vars

\* Instructions with a finish key on a keyboard: one to MaxPages pages, each
\* an image or a function, presented from any page to any later one; keys
\* are pressed while a page waits.
Books ==
    UNION {[1..n -> {"image", "callback"}] : n \in 1..MaxPages}

InitBook ==
    /\ InitCore(OneTrial, NoSettings, {"None", "Keyboard"})
    /\ InitTiming({[k \in {"fix"} |-> Seconds(0)]}, {4})
    /\ InitInstr(Books)
    /\ InitKeys({"range"})

\* Calls that have a page to show: start is below stop.
CallPresent ==
    \E start \in Opt(0..(Len(pages) - 1)), stop \in Opt(1..Len(pages)) :
        /\ (IF start = None THEN nextpage ELSE start[1])
              < (IF stop = None THEN Len(pages) ELSE stop[1])
        /\ present(start, stop)

NextBook ==
    \/ CallPresent
    \/ present_page
    \/ PressAtWait
    \/ key_read
    \/ turn_page

SpecBook == InitBook /\ [][NextBook]_vars

\* Trigger log: runs over a table in identifier order with trials and breaks
\* that log triggers; between the calls triggers are sent, the log is saved,
\* reset_beh and set_triggers are called.
InitLog == InitWith(SortedTables, BreakSettings)

CallLog == show_all_trials(PlainArgs(None, None))

NextLog ==
    \/ CallLog
    \/ loop_head
    \/ PresentFlush
    \/ loop_tail
    \/ save_trigger_log
    \/ send_trigger
    \/ reset_beh
    \/ set_triggers

SpecLog == InitLog /\ [][NextLog]_vars

\* Cursor: a call with or without start_from, stop_after and a staircase of
\* one value, then calls with or without start_from, on any table under any
\* row labels, and reset_beh between them.
InitLoc ==
    /\ InitCore(TrialTables, NoSettings, {"None"})
    /\ InitTiming({[k \in {"fix"} |-> Seconds(0)]}, {4})
    /\ InitInstr({<<"image">>})
    /\ InitKeys({"cut", "reordered"})

CallLoc ==
    \E st \in Opt({1}), sf, sa \in Opt(Ids) :
        /\ calls > 0 => st = None /\ sa = None
        /\ show_all_trials([StairArgs(st, sf, FALSE, FALSE)
                                EXCEPT !.stop_after = sa])

NextLoc ==
    \/ CallLoc
    \/ loop_head
    \/ Present
    \/ loop_tail
    \/ reset_beh

SpecLoc == InitLoc /\ [][NextLoc]_vars

\* Growing tables: calls with and without start_from and stop_after on a
\* table in identifier order, with breaks, while rows are added at the end of
\* the table.
InitGrow == InitWith(SortedTables, BreakSettings)

AppendRow == \E ident \in Ids : append_trial(ident)

NextGrow ==
    \/ Call
    \/ loop_head
    \/ Present
    \/ loop_tail
    \/ AppendRow

SpecGrow == InitGrow /\ [][NextGrow]_vars

\* Order of the flush: two calls with and without start_from and the accuracy
\* stop on a table in identifier order, with breaks that log a trigger and
\* trials that log one trigger or none.
InitOrder == InitWith(SortedTables, BreakSettings)

CallOrder ==
    /\ calls <= 1
    /\ \E sf \in Opt(Ids) :
          \/ show_all_trials(PlainArgs(sf, None))
          \/ show_all_trials(AccArgs(sf, Some(1), None))

PresentOrder ==
    \E k \in {0, 1}, ifcorrect \in BOOLEAN : show_trial(k, ifcorrect)

NextOrder ==
    \/ CallOrder
    \/ loop_head
    \/ PresentOrder
    \/ loop_tail

SpecOrder == InitOrder /\ [][NextOrder]_vars

---------------------------------------------------------------------------
\* What the running (or last) call has shown.
TrialEvents == SelectSeq(events, LAMBDA e : e.kind = "trial")
BreakEvents == SelectSeq(events, LAMBDA e : e.kind = "break")
presented == [i \in 1..Len(TrialEvents) |-> TrialEvents[i].pos]
UpTo(n) == [i \in 1..n |-> i - 1]
RowOf(ident) == Min(np_where(trials, ident))
IsSorted(tri) == \A i, j \in DOMAIN tri : i < j => tri[i] < tri[j]

\* The arguments of the call were resolved and the loop was entered.
Entered == ended \notin {"never", "bad_argument"}
\* Some earlier call showed some rows of the table and not all of them.
PartialRunBefore == shown_before # {} /\ shown_before # DOMAIN trials

\* C1: a first call without arguments on a freshly reset cursor ends at the
\* end of the table having presented every row exactly once, in ascending
\* position order, with every row's outcome written exactly once; this for
\* every trial table, the empty one and one-row ones included.
C1_EveryRowOnce ==
    (calls = 1 /\ pc = "idle" /\ args.start_from = None /\ args.stop_after = None)
        => /\ ended = "boundary"
           /\ presented = UpTo(Rows(trials))
           /\ \A p \in DOMAIN beh : beh[p].ifcorrect # None /\ beh_writes[p] = 1

\* C2 as stated: after a partial run, a call with start_from = X presents no
\* trial whose identifier is less than X, whatever the order of the
\* identifiers in the table.
C2_NoSmallerIdentifier ==
    (Entered /\ args.start_from # None /\ PartialRunBefore)
        => \A i \in DOMAIN presented : trials[presented[i]] >= args.start_from[1]

\* C2 amended: after a partial run, a call with start_from = X presents no
\* row at a position before the row of X; when the identifiers increase with
\* the position, it presents no trial whose identifier is less than X.
C2_NoEarlierRow ==
    (Entered /\ args.start_from # None /\ PartialRunBefore)
        => \A i \in DOMAIN presented :
              /\ presented[i] >= RowOf(args.start_from[1])
              /\ IsSorted(trials) => trials[presented[i]] >= args.start_from[1]

\* A call with start_from, made after a partial run, has presented two trials
\* from a row that is not the first one.
C2_Resumed ==
    /\ Entered /\ args.start_from # None /\ PartialRunBefore
    /\ RowOf(args.start_from[1]) >= 1
    /\ Len(presented) >= 2

\* C3: a call with stop_after, from any start row of the table, presents no
\* row beyond the stop_after row and ends right after presenting that row,
\* whether the start row lies before or after the stop_after row.
C3_StopsAfterStopRow ==
    (Entered /\ args.stop_after # None /\ start_row \in DOMAIN trials)
        => /\ \A i \in DOMAIN presented : presented[i] <= RowOf(args.stop_after[1])
           /\ pc = "idle" =>
                 /\ ended = "boundary"
                 /\ presented # <<>>
                 /\ presented[Len(presented)] = RowOf(args.stop_after[1])

---------------------------------------------------------------------------
\* The tail of the iteration has run for the last presented trial.
Evaluated == Entered /\ pc \in {"loop", "idle"} /\ presented # <<>>
LastRow == presented[Len(presented)]

\* Evaluation i of the call met the threshold.
Passes(i) ==
    acc_hist[i][2] * args.stop_at_corr[1][2]
        >= args.stop_at_corr[1][1] * acc_hist[i][1]
\* After k trials of the call the accuracy stop is due.
StopDue(k) ==
    /\ k >= args.n_consecutive[1]
    /\ k >= args.min_trials[1]
    /\ \A j \in (k - args.n_consecutive[1] + 1)..k : Passes(j)

\* C4: with stop_at_corr, the accuracy evaluated after a trial is (rows with
\* identifier <= current_trial whose ifcorrect is true) / (rows with
\* identifier <= current_trial); the call stops for accuracy after the first
\* trial at which the last n_consecutive evaluations all met the threshold
\* and min_trials trials were presented in the call, and not before.
C4_AccuracyStop ==
    (Evaluated /\ args.stop_at_corr # None)
        => /\ Len(acc_hist) = Len(presented)
           /\ disp_corr = Some(acc_hist[Len(acc_hist)])
           /\ acc_hist[Len(acc_hist)] =
                 <<Cardinality({p \in DOMAIN beh : beh[p].trial <= current_trial}),
                   Cardinality({p \in DOMAIN beh :
                                   /\ beh[p].trial <= current_trial
                                   /\ beh[p].ifcorrect = Some(TRUE)})>>
           /\ (ended = "accuracy") = StopDue(Len(acc_hist))
           /\ \A k \in 1..(Len(acc_hist) - 1) : ~StopDue(k)

\* After an earlier run, a call stopped for accuracy on its third trial or
\* later, an evaluation before the last ones having missed the threshold.
C4_StoppedLate ==
    /\ pc = "idle" /\ ended = "accuracy" /\ shown_before # {}
    /\ Len(acc_hist) >= 3
    /\ \E i \in 1..Len(acc_hist) : ~Passes(i)

CorrectAmong(S) ==
    Cardinality({p \in DOMAIN beh : beh[p].trial \in S /\ beh[p].ifcorrect = Some(TRUE)})

\* C5 as stated: in the scenario (stop_at_corr 0.8, n_consecutive 2,
\* min_trials 5, ten trials, trials 5 to 9 correct) the call stops exactly
\* after trial 9 for every outcome of the other trials.
C5_StopsAfterNine ==
    (Entered /\ pc = "idle") => current_trial = 9 /\ presented = UpTo(9)

\* C5 amended: in the scenario the call stops for accuracy after trial 5 when
\* trials 1 to 4 are all correct, after trial 6 when exactly three of them
\* are correct, and otherwise runs to the end of the table (trial 10); it
\* never stops for accuracy after trial 9.
C5_StopsByEarlyOutcomes ==
    (Entered /\ pc = "idle")
        => /\ CorrectAmong(1..4) = 4 => ended = "accuracy" /\ current_trial = 5
           /\ CorrectAmong(1..4) = 3 /\ Len(presented) >= 4
                 => ended = "accuracy" /\ current_trial = 6
           /\ ended = "accuracy" => current_trial \in {5, 6}
           /\ ended # "accuracy" => ended = "boundary" /\ presented = UpTo(10)

\* The scenario ended by the accuracy stop after trial 6.
C5_StoppedAfterSix == pc = "idle" /\ ended = "accuracy" /\ current_trial = 6

---------------------------------------------------------------------------
\* The break interval in force: the argument, else the setting.
Interval ==
    IF args.break_every # None THEN args.break_every
    ELSE settings.break_every_n_trials
\* The row before the stop boundary.
StopRow ==
    IF args.stop_after # None THEN RowOf(args.stop_after[1])
    ELSE Rows(trials) - 1
\* A break was shown after the last presented trial.
BreakShownNow == events[Len(events)].kind = "break"
\* Trials presented since the previous break, the last trial included.
RECURSIVE TrialsAtEnd(_)
TrialsAtEnd(ev) ==
    IF ev = <<>> \/ ev[Len(ev)].kind = "break" THEN 0
    ELSE 1 + TrialsAtEnd(SubSeq(ev, 1, Len(ev) - 1))
SinceBreak ==
    IF BreakShownNow THEN TrialsAtEnd(SubSeq(events, 1, Len(events) - 1))
    ELSE TrialsAtEnd(events)
PeriodicDue == Interval # None /\ Interval[1] > 0 /\ SinceBreak = Interval[1]
LastWrong == beh[LastRow].ifcorrect = Some(FALSE)

\* C6 as stated: without break_after_error, a break is shown after a trial
\* exactly when the interval n > 0 is configured and n trials were presented
\* since the previous break (or the start of the call).
C6_BreakEveryN ==
    (Evaluated /\ ~args.break_after_error) => (BreakShownNow = PeriodicDue)

\* C6 amended: ... exactly when n trials were presented since the previous
\* break and the trial is neither the row before the stop boundary nor the
\* trial at which the accuracy stop ends the call; with interval 0 or no
\* interval no break is shown.
C6_BreakEveryNButLast ==
    (Evaluated /\ ~args.break_after_error)
        => /\ BreakShownNow =
                 (PeriodicDue /\ LastRow # StopRow /\ ended # "accuracy")
           /\ (Interval = None \/ Interval = Some(0)) => BreakEvents = <<>>

\* Two periodic breaks were shown in a call with interval 2.
C6_TwoBreaks ==
    /\ Evaluated /\ ~args.break_after_error /\ Interval = Some(2)
    /\ Len(BreakEvents) >= 2

\* C7 as stated: a call that ended at the stop boundary, by the accuracy
\* stop or by staircase exhaustion showed no break after its last trial.
C7_NoBreakAtEnd ==
    (pc = "idle" /\ ended \in {"boundary", "accuracy", "staircase"}
        /\ events # <<>>) => ~BreakShownNow

\* C7 amended: a call that ended at the stop boundary or by the accuracy
\* stop showed no break after its last trial.
C7_NoBreakAtBoundary ==
    (pc = "idle" /\ ended \in {"boundary", "accuracy"} /\ events # <<>>)
        => ~BreakShownNow

\* A call with a break after every trial ended at the stop boundary: a break
\* after each trial but the last.
C7_BreaksButLast ==
    /\ pc = "idle" /\ ended = "boundary" /\ Interval = Some(1)
    /\ Len(presented) >= 3
    /\ Len(BreakEvents) = Len(presented) - 1

---------------------------------------------------------------------------
RowLines(file) == SelectSeq(file, LAMBDA l : l.kind = "row")
NoRepeat(lines) ==
    \A i, j \in DOMAIN lines : lines[i].pos = lines[j].pos => i = j
HeaderFirstOnly(file) ==
    file # <<>> =>
        /\ file[1].kind = "header"
        /\ \A i \in 2..Len(file) : file[i].kind = "row"

\* C9: no row position of the Behavioral Log and no entry of the Trigger Log
\* is written to its file more than once, over any sequence of calls (with
\* or without start_from) and of flushes.
C9_NothingWrittenTwice ==
    /\ NoRepeat(RowLines(beh_file))
    /\ NoRepeat(RowLines(trig_file))

\* C10: each of the two files holds its header exactly once, as its first
\* line, wherever the run starts and whether or not a trigger was logged
\* before the flush.
C10_HeaderOnce ==
    /\ HeaderFirstOnly(beh_file)
    /\ HeaderFirstOnly(trig_file)

---------------------------------------------------------------------------
\* The codes of a schedule and of the emissions.
Codes(q) == [i \in DOMAIN q |-> q[i][1]]
Logged == trigger_log.trigger
Pending == Codes(to_call)

\* C11: every code asked of set_trigger (an integer, or the code of a mapped
\* name; nothing for an unmapped name) is emitted and logged exactly once, in
\* the order of the set_trigger calls; the log grows only at a window flip,
\* and a flip emits everything scheduled before it.
C11_EmittedOnceAtNextFlip ==
    /\ [](/\ Logged \o Pending = scheduled
          /\ Codes(emitted) = Logged)
    /\ [][/\ clock_time' = clock_time => trigger_log' = trigger_log
          /\ clock_time' # clock_time => to_call' = <<>> /\ Logged' = scheduled']_vars

\* An integer code and the code of a mapped name were emitted at one flip, in
\* the order they were asked for, and a later code waits for the next flip.
C11_TwoInOrder == Logged = <<5, 1>> /\ Pending = <<0>>

\* C13: after a hardware write has raised, the experiment goes on (the flip
\* did not end by an exception), every code of that flip is in the Trigger
\* Log, the device is off for the rest of the run (log only) and one warning
\* was issued.
C13_HardwareFailureSurvived ==
    hw_errors > 0
        => /\ ~flip_raised
           /\ Logged = scheduled
           /\ trigger_device = "none"
           /\ warnings = 1

---------------------------------------------------------------------------
\* The running (or last) call of show_element.
Shown == shows >= 1
Done == Shown /\ el_pc = "idle"
Outcome == el_result[1]
ElNames == el.elem[2]
\* The emissions of triggers the call scheduled: its onset trigger, its clear.
OnsetEmissions ==
    {i \in DOMAIN emitted : emitted[i][2] = shows /\ emitted[i][1] # 0}
ClearEmissions ==
    {i \in DOMAIN emitted : emitted[i][2] = shows /\ emitted[i][1] = 0}

\* C12: when show_element is called with reset_clock true or with a clock, the
\* clock is reset at the first flip of the call, so from that flip on it reads
\* the time since that flip and a returned reaction time is measured from it;
\* this for every trigger argument and with or without a trigger mapping.
C12_ClockResetAtFirstFlip ==
    (Shown /\ el.reset_clock # "False" /\ flips >= 1)
        => /\ clock_time = since_onset
           /\ Outcome = "pair" => el_result[3] = since_onset

\* The time is indefinite: given as np.inf, or drawn so from the timing table.
InfiniteDuration ==
    \/ el.time = Some(np_inf)
    \/ /\ el.time = None
       /\ ElNames # <<>>
       /\ ElNames[1] \in DOMAIN times
       /\ np_inf \in times[ElNames[1]]

\* C14: show_element with an infinite duration (passed as time or drawn from
\* the timing table) and await_response false raises an error before any
\* element is drawn and before any window flip.
C14_IndefiniteRaises ==
    (Shown /\ InfiniteDuration /\ ~el.await_response)
        => /\ el_pc = "idle"
           /\ Outcome = "raise"
           /\ flips = 0
           /\ draws = 0

\* The indefinite time came from the timing table and the RuntimeError was
\* raised with the onset trigger already scheduled.
C14_RaisedFromTable ==
    /\ el_result = Raised("RuntimeError")
    /\ el.time = None
    /\ Pending # <<>>

\* The duration of the call: the time argument, else the drawn time.
Duration == IF el.time # None THEN el.time[1] ELSE n_frames
HasDuration ==
    el.time # None \/ (ElNames # <<>> /\ ElNames[1] \in DOMAIN times)

\* C15: for every duration, passed as time or drawn from the timing table,
\* a trigger_off_time at or past the duration is treated as None: no error
\* of its own, no clear trigger scheduled or emitted.
C15_LateOffIsNone ==
    (Shown /\ HasDuration /\ el.trigger_off_time # None
        /\ el.trigger_off_time[1] >= Duration)
        => /\ el_result # Raised("TypeError")
           /\ trigger_off = None
           /\ ClearEmissions = {}

\* C16: show_element flips the window once per loop iteration and never more
\* than n_frames times; the loop goes on while fewer than n_frames flips are
\* done and the time since the first flip is below n_frames * frame_time -
\* 0.5 * frame_time, and ends at the first iteration boundary where one of
\* the two fails; with flips of exactly one frame_time it flips n_frames times.
C16_FlipsWithinFrames ==
    (Shown /\ Outcome # "raise")
        => /\ flips <= n_frames
           /\ flips = frame_idx + (IF Outcome \in {"pair", "key"} THEN 1 ELSE 0)
           /\ el_pc = "loop"
                 => /\ flips < n_frames
                    /\ 2 * since_onset < 2 * n_frames * frame_time - frame_time
           /\ Outcome \in {"None", "nan"}
                 => /\ \/ flips = n_frames
                       \/ 2 * since_onset >= 2 * n_frames * frame_time - frame_time
                    /\ (flips >= 1 /\ since_onset = (flips - 1) * frame_time)
                          => flips = n_frames

\* A call of three frames ended on the elapsed time after two flips.
C16_TimeExit ==
    /\ Done /\ Outcome = "None"
    /\ n_frames = 3
    /\ flips = 2

\* C17: with await_response, show_element polls the response device once
\* after every flip, returns at the first poll that finds a key, and its
\* result is the pair (key, reaction time), or (None, NaN) when the loop ends
\* without a key, for every value of reset_clock.
C17_PairOrNan ==
    (Done /\ el.await_response /\ Outcome # "raise")
        => /\ polls = flips
           /\ Outcome \in {"pair", "nan"}

\* elem names no known stimulus.
NoKnownStimulus == \A i \in DOMAIN ElNames : ElNames[i] \notin stim

\* C18: when elem names no known stimulus (an unknown name, the empty string,
\* an empty list, a list of unknown names), a call with a time and an explicit
\* trigger code raises nothing, draws nothing, flips the window for the
\* requested frames and emits the trigger.
C18_BlankInterval ==
    (Shown /\ NoKnownStimulus /\ el.time # None /\ el.time # Some(np_inf)
        /\ el.trigger[1] = "int" /\ ~el.await_response)
        => /\ Outcome # "raise"
           /\ draws = 0
           /\ Done => flips = el.time[1]
           /\ flips >= 1 => OnsetEmissions # {}

\* The trigger of the call can be resolved: an explicit trigger, or elem[0]
\* mapped in the trigger table.
Resolvable ==
    \/ el.trigger[1] \in {"int", "str"}
    \/ el.trigger = TrigNone /\ ElNames # <<>> /\ ElNames[1] \in DOMAIN triggers

\* C19: a call that returns has emitted its onset trigger exactly once, at its
\* own first flip, when the trigger is resolvable and not False, for every
\* duration, 0 frames included; else it has emitted no onset trigger.
C19_OnsetOnce ==
    (Done /\ Outcome # "raise")
        => IF Resolvable
           THEN /\ Cardinality(OnsetEmissions) = 1
                /\ \A i \in OnsetEmissions :
                      emitted[i][3] = shows /\ emitted[i][4] = 0
           ELSE OnsetEmissions = {}

\* C20: a call that emitted its onset trigger and has a trigger_off_time F
\* below its duration has, when it returns, emitted exactly one clear trigger
\* (code 0), at the flip of frame F, after the onset trigger, however the loop
\* ended.
C20_ClearedOnce ==
    (Done /\ Outcome # "raise" /\ OnsetEmissions # {}
        /\ el.trigger_off_time # None /\ el.time # None
        /\ el.trigger_off_time[1] < el.time[1])
        => /\ Cardinality(ClearEmissions) = 1
           /\ \A i \in ClearEmissions :
                 /\ emitted[i][4] = el.trigger_off_time[1]
                 /\ \A j \in OnsetEmissions : j < i

---------------------------------------------------------------------------
\* C21: at every blocking wait (break screen, response wait, instruction
\* page) a wait in which the enabled quit key was pressed ends by core.quit,
\* never by an error or by going on, and no wait ends by core.quit without
\* the quit key.
C21_QuitKeyTerminates ==
    /\ quit_seen => wait_pc # "idle"
    /\ wait_pc = "exited" => quit_seen

\* The file holds the lines `before` and then the lines `after` adds.
Extends(after, before) ==
    Len(after) >= Len(before) /\ SubSeq(after, 1, Len(before)) = before

\* C22: when the quit key ends the experiment, every row of the Behavioral
\* Log that holds an outcome and every entry of the Trigger Log is in its
\* file when the process exits, and the lines the files held before are
\* unchanged.
C22_FlushedAtQuit ==
    /\ [](pc = "exited"
            => /\ \A p \in DOMAIN beh :
                     beh[p].ifcorrect # None
                         => \E i \in DOMAIN RowLines(beh_file) :
                               RowLines(beh_file)[i].pos = p
               /\ Len(RowLines(trig_file)) = Len(trigger_log.time))
    /\ [][pc' = "exited"
            => Extends(beh_file', beh_file) /\ Extends(trig_file', trig_file)]_vars

\* C23: after the quit key is pressed while show_element runs its frame
\* loop, the loop flips the window at most once more (the flip before its
\* next poll point), with await_response true and false alike.
C23_NoFrameAfterQuit ==
    quit_flip >= 0 => flips <= quit_flip + 1

---------------------------------------------------------------------------
\* The entries the box holds for the program, in arrival order, and those of
\* them that are presses of a key of keyList.
Entries == response_queue \o box_line
Wanted(e, keyList) == e[2] /\ (keyList = None \/ e[1] \in keyList[1])

\* C24: a read of waitKeys on a response box ends the wait with the first
\* entry that is a press of a key of keyList (of any key when keyList is
\* None), drops the entries before it and keeps those after it; with no such
\* entry it drops every entry and goes on waiting.  It never returns a
\* release or a key outside keyList.
C24_FirstPressEndsWait ==
    [][(/\ wait_pc = "waitKeys"
        /\ arrived' = arrived
        /\ <<response_queue, box_line, wait_pc>>' # <<response_queue, box_line, wait_pc>>)
        => LET ok == {i \in DOMAIN Entries : Wanted(Entries[i], wait_args[1])}
           IN  IF ok = {}
               THEN wait_pc' = "waitKeys" /\ Entries' = <<>>
               ELSE /\ wait_pc' = "idle"
                    /\ keys_out'[1] = (IF wait_args[2] THEN "pair" ELSE "key")
                    /\ keys_out'[2][1][1] = Entries[Min(ok)][1]
                    /\ wait_args[2] => keys_out'[2][1][2] = Entries[Min(ok)][3]
                    /\ Entries' = SubSeq(Entries, Min(ok) + 1, Len(Entries))]_vars

\* A time-stamped waitKeys with a key list, begun before any entry came in,
\* has returned the third entry: it dropped two entries before it.
C24_ThirdEntryReturned ==
    /\ wait_pc = "idle"
    /\ keys_out[1] = "pair"
    /\ wait_args[1] # None
    /\ wait_args[3] = 0
    /\ keys_out[2][1][2] = 3

\* C25: getKeys on a response box is one step that returns; it returns the
\* presses of keys of keyList among the entries the box holds, in arrival
\* order (the earliest alone when only_first, the empty list when there is
\* none) and leaves response_queue empty.
C25_QueuedPressesInOrder ==
    [][(/\ wait_pc = "idle"
        /\ response_device \in Boxes
        /\ arrived' = arrived
        /\ returned' = returned
        /\ keys_out'[1] \in {"first", "list"}
        /\ vars' # vars)
        => LET keyList == wait_args'[1]
               got == SelectSeq(Entries, LAMBDA e : Wanted(e, keyList))
               out == keys_out'[2]
           IN  /\ response_queue' = <<>>
               /\ IF got = <<>> THEN keys_out' = Gave("list", <<>>)
                  ELSE IF wait_args'[2]
                  THEN /\ keys_out'[1] = "first"
                       /\ Len(out) = 1
                       /\ out[1][1] = got[1][1]
                       /\ out[1][2] \in {0, got[1][3]}
                  ELSE /\ keys_out'[1] = "list"
                       /\ Len(out) = Len(got)
                       /\ \A i \in DOMAIN got :
                             out[i][1] = got[i][1] /\ out[i][2] \in {0, got[i][3]}]_vars

\* getKeys with a key list has returned the earliest of two presses it found
\* among three entries.
C25_EarliestOfTwo ==
    /\ wait_pc = "idle"
    /\ keys_out[1] = "first"
    /\ wait_args[1] # None
    /\ keys_out[2][1] = <<"1", 2>>
    /\ arrived = 3
    /\ Entries = <<>>
    /\ returned = <<>>

\* C26: over calls of CedrusResponseBox.getKeys that clear what they read,
\* every returned key is a press read in that call (a release adds no key)
\* and no press is returned twice, in one call or in two.
C26_OnlyPressesRead ==
    (\A i \in DOMAIN returned : returned[i][3])
        => /\ \A i \in DOMAIN returned : \A j \in DOMAIN returned[i][2] :
                 returned[i][2][j] \in returned[i][1]
           /\ \A i, k \in DOMAIN returned :
                 \A j \in DOMAIN returned[i][2], l \in DOMAIN returned[k][2] :
                    returned[i][2][j] = returned[k][2][l] => (i = k /\ j = l)

\* C27: when show_page has cleared the buffer of its device and begins its
\* wait, the device holds no event, whatever its kind; and the entry of a
\* response box that decides the navigation of a page came in after the page
\* was shown.
C27_NoStaleKey ==
    /\ [][(wait_pc = "idle" /\ wait_pc' = "page")
            => /\ Entries' = <<>>
               /\ response_device = "None" => kb' = <<>>
               /\ response_device = "Keyboard" => key_buffer' = <<>>]_vars
    /\ []((keys_out[1] = "action" /\ response_device \in Boxes)
            => keys_out[2][1][2] > wait_args[3])

---------------------------------------------------------------------------
\* The calls made on the staircase for the row at position p: the values
\* staircase.next() returned, and what addResponse was called with.
NextAt(p) ==
    {i \in DOMAIN stair_calls :
        stair_calls[i][1] = "next" /\ stair_calls[i][2] = p
            /\ stair_calls[i][3] = "value"}
AddAt(p) ==
    {i \in DOMAIN stair_calls :
        stair_calls[i][1] = "addResponse" /\ stair_calls[i][2] = p}
\* The row at position p was presented and its iteration is over.
Informed(p) ==
    /\ \E i \in DOMAIN TrialEvents : TrialEvents[i].pos = p
    /\ ~(pc = "tail" /\ current_idx = p)

\* C28: in a call with a staircase, staircase.next() is called once for
\* every trial before it is presented and its value is in the column
\* staircase_param of that row of trials and of beh; addResponse is called
\* once after the trial, with its correctness (with its row when
\* staircase_full_row), and not at all when staircase_ignore_na is set and
\* the RT of the row is NaN.
C28_NextThenAddResponse ==
    /\ pc \in {"trial", "tail"}
          => /\ Cardinality(NextAt(current_idx)) = 1
             /\ AddAt(current_idx) = {}
             /\ pc = "trial" => \A i \in DOMAIN TrialEvents :
                                   TrialEvents[i].pos # current_idx
    /\ \A i \in DOMAIN TrialEvents :
          LET p == TrialEvents[i].pos
          IN  /\ Cardinality(NextAt(p)) = 1
              /\ \A n \in NextAt(p) :
                    stair_param[p] = <<Some(stair_calls[n][4]),
                                       Some(stair_calls[n][4])>>
              /\ Informed(p)
                    => IF keyword(args, "staircase_ignore_na") /\ beh_rt[p] = None
                       THEN AddAt(p) = {}
                       ELSE /\ Cardinality(AddAt(p)) = 1
                            /\ \A n \in NextAt(p), a \in AddAt(p) :
                                  /\ a = n + 1
                                  /\ stair_calls[a][3] =
                                        (IF keyword(args, "staircase_full_row")
                                         THEN "row" ELSE "ifcorr")
                                  /\ stair_calls[a][4] =
                                        (IF keyword(args, "staircase_full_row")
                                         THEN p
                                         ELSE IF beh[p].ifcorrect[1] THEN 1 ELSE 0)

\* A call with staircase_ignore_na has ended after two trials: one answered,
\* of which the staircase was informed, and one without a response.
C28_OneSkipped ==
    /\ ended = "boundary"
    /\ keyword(args, "staircase_ignore_na")
    /\ Len(TrialEvents) = 2
    /\ \E p, q \in DOMAIN trials :
          /\ beh_rt[p] = None /\ NextAt(p) # {} /\ AddAt(p) = {}
          /\ beh_rt[q] # None /\ AddAt(q) # {}

\* C29: the step in which staircase.next() raises StopIteration ends the
\* call without an error, writes no staircase value into trials or beh and
\* presents nothing; the call has presented no trial at or after the cursor.
C29_ExhaustedEndsCall ==
    /\ [](ended = "staircase"
            => /\ pc = "idle"
               /\ \A i \in DOMAIN TrialEvents : TrialEvents[i].pos < current_idx
               /\ NextAt(current_idx) = {})
    /\ [][(Len(stair_calls') > Len(stair_calls)
            /\ stair_calls'[Len(stair_calls')][3] = "StopIteration")
            => /\ ended' = "staircase"
               /\ pc' = "idle"
               /\ stair_param' = stair_param
               /\ events' = events]_vars

\* The staircase ran out at the third trial, after two trials were presented.
C29_StoppedAtThird ==
    /\ ended = "staircase"
    /\ Len(TrialEvents) = 2
    /\ current_idx = 2

\* C30: once a call of show_all_trials has run to the end of the trial
\* table, no step presents a trial, in a call with or without start_from,
\* until reset_beh has been called.
C30_FinishedIsTerminal ==
    [][finished => Len(TrialEvents') <= Len(TrialEvents)]_vars

---------------------------------------------------------------------------
\* A frame count f is within one frame of x.
Near(f, x) ==
    /\ f \in Int
    /\ f * measured_frame_time - x < measured_frame_time
    /\ x - f * measured_frame_time < measured_frame_time

\* C31: the translated table has the keys of the table of the settings; a
\* number maps to an integer frame count within one frame time of it, a range
\* to two such counts, one for each bound, and 'inf' to the infinity value,
\* which is above every frame count of the table.
C31_WithinOneFrame ==
    time_in_frames # None
        => LET out == time_in_frames[1]
               Counts == UNION {{out[k][2][i] : i \in DOMAIN out[k][2]} :
                                   k \in {n \in DOMAIN out : out[n][1] # "inf"}}
           IN  /\ DOMAIN out = DOMAIN time_in_seconds
               /\ \A k \in DOMAIN out :
                     LET v == time_in_seconds[k]
                     IN  IF v[1] = "inf"
                         THEN /\ out[k][1] = "inf"
                              /\ \A c \in Counts : out[k][2][1] > c
                         ELSE /\ out[k][1] = (IF v[1] = "list" THEN "list" ELSE "int")
                              /\ Len(out[k][2]) = Len(v[2])
                              /\ \A i \in DOMAIN v[2] : Near(out[k][2][i], v[2][i])

\* A table with a range that ends on a half frame and an 'inf' was translated.
C31_RangeAndInf ==
    /\ time_in_frames # None
    /\ measured_frame_time = 4
    /\ time_in_seconds = [k \in {"fix", "cue"} |->
                             IF k = "fix" THEN Range(5, 10) ELSE Inf]
    /\ time_in_frames[1]["fix"] = <<"list", <<1, 2>>>>

---------------------------------------------------------------------------
\* C32: with a finish key, the last page of present (stop - 1) is left by
\* 'finish' or 'prev' and never by 'next', any other page is never left by
\* 'finish', whatever the kind of the page; nextpage stays within 0..stop
\* while present runs, and 'prev' on page 0 stays on page 0.
C32_FinishKeyOnLastPage ==
    /\ ins_pc # "idle" => nextpage \in 0..ins_stop
    /\ \A i \in DOMAIN turned :
          /\ turned[i][4] => turned[i][3] \in {"finish", "prev"}
          /\ ~turned[i][4] => turned[i][3] \in {"next", "prev"}

\* C33: the three lists of the trigger log always have one length,
\* last_log_save is never above it, and a step that is not reset_beh only
\* appends to the lists.
C33_LogAppendOnly ==
    /\ [](/\ Len(trigger_log.time) = Len(trigger_log.trigger)
          /\ Len(trigger_log.time) = Len(trigger_log.trial)
          /\ last_log_save <= Len(trigger_log.time))
    /\ [][\/ /\ Extends(trigger_log.time', trigger_log.time)
              /\ Extends(trigger_log.trigger', trigger_log.trigger)
              /\ Extends(trigger_log.trial', trigger_log.trial)
           \/ /\ trigger_log' = empty_trigger_log
              /\ last_log_save' = 0
              /\ last_beh_save' = 0
              /\ current_idx' = 0 - 1
              /\ beh' = reset_beh_table(trials)]_vars

C35_CountsPresentedRowsOnly ==
    (pc = "tail" /\ args.stop_at_corr # None) =>
        \A p \in query_rows(beh, current_trial) :
            /\ beh_writes[p] > 0
            /\ beh[p].ifcorrect # None

\* C36: a call without stop_after never ends at the boundary before the last
\* row that the table has when it ends: it has presented every row from its
\* start row to that row, the rows added during the call included, in
\* position order; and the loop does not run past the last row.
C36_EndsAtLastRowNow ==
    (Entered /\ args.stop_after = None /\ start_row \in DOMAIN trials) =>
        /\ \A i \in DOMAIN presented : presented[i] = start_row + i - 1
        /\ ended # "index_error"
        /\ pc = "idle" =>
              /\ ended = "boundary"
              /\ current_idx = Cardinality(DOMAIN trials) - 1
              /\ Len(presented) = Cardinality(DOMAIN trials) - start_row

\* A call ended at the boundary after the two rows that were added while it
\* ran, one of them during a break.
C36_AddedRowsPresented ==
    /\ pc = "idle" /\ ended = "boundary" /\ args.stop_after = None
    /\ appended = {1, 2}
    /\ presented = UpTo(3)
    /\ Len(BreakEvents) = 1

\* C37: when a call has returned at the stop boundary, for accuracy or on
\* staircase exhaustion, current_idx is the position of the last trial that
\* was presented (the one it had before the call when the call presented
\* none), so that the next call without start_from starts at the first row
\* not yet presented.
C37_ReturnsOnLastPresented ==
    [][(pc # "idle" /\ pc' = "idle"
           /\ ended' \in {"boundary", "accuracy", "staircase"})
          => current_idx' = IF presented' # <<>> THEN LastRow' ELSE cursor0']_vars

\* C38: when show_element has raised for an indefinite time without
\* await_response, no callback of that call is pending on the window and
\* no trigger of it has been emitted or logged.
C38_RaiseLeavesNothing ==
    (Shown /\ el_result = Raised("RuntimeError")) =>
        /\ to_call = <<>>
        /\ scheduled = <<>>
        /\ emitted = <<>>
        /\ trigger_log = empty_trigger_log

NewBehRows ==
    {beh_file'[i].pos : i \in {j \in (Len(beh_file) + 1)..Len(beh_file') :
                                  beh_file'[j].kind = "row"}}

\* C40: the flush after a trial writes the row of that trial, and every row
\* it writes is the row of a presented trial with its outcome.
C40_FlushWritesPresentedRows ==
    [][pc = "tail"
          => /\ current_idx \in NewBehRows
             /\ \A p \in NewBehRows :
                   beh_writes[p] > 0 /\ beh[p].ifcorrect # None]_vars

===========================================================================
